---------------------------- MODULE Spec2Model ----------------------------
(***************************************************************************)
(* Velero plugins for Microsoft Azure: the object store adapter            *)
(* (object_store.go, util/storage.go) and the volume snapshotter adapter   *)
(* (volume_snapshotter.go, common.go) as a state machine.                  *)
(*                                                                         *)
(* Text values are TLA+ strings; a value the code parses character by      *)
(* character (blockSizeInBytes) is a sequence of one-character strings.    *)
(* A Go map[string]string is a function whose DOMAIN is the set of keys    *)
(* present.                                                                *)
(***************************************************************************)
EXTENDS Integers, Sequences, FiniteSets, TLC

VARIABLES
    env,     \* the process environment (os.Getenv / godotenv.Overload)
    store,   \* the fields of the ObjectStore receiver
    snap,    \* the fields of the VolumeSnapshotter receiver
    blob,    \* the blob service: staged blocks and committed content of one blob
    calls,   \* the requests the running operation has sent, in order
    put,     \* the frame of the running PutObject call
    list,    \* the frame of the running ListObjects / ListCommonPrefixes call
    ret,     \* the last operation that returned: its arguments and results
    compute, \* the disks and snapshots of the Azure compute resource provider
    inits,   \* the frames of the Init calls that run concurrently, one per plugin
    clouds   \* the SDK's package variables cloud.AzurePublic, AzureChina, AzureGovernment

vars == <<env, store, snap, blob, calls, put, list, ret, compute, inits, clouds>>

(***************************************************************************)
(* Bounds of the model.                                                    *)
(***************************************************************************)
MaxLen == 2        \* longest enumerated blockSizeInBytes text
MaxBody == 3       \* longest body handed to PutObject
MaxZeroReads == 1  \* reads of one body that return (0, nil)
MaxPages == 3      \* most pages in one listing
MaxNames == 1      \* most names of a kind in one page

(***************************************************************************)
(* Go map helpers.                                                         *)
(***************************************************************************)
EmptyMap == [k \in {} |-> ""]

\* m[k] of a Go map: the zero value "" when the key is absent
Get(m, k) == IF k \in DOMAIN m THEN m[k] ELSE ""

\* m[k] = v on a Go map
Put(m, k, v) == [x \in (DOMAIN m) \cup {k} |-> IF x = k THEN v ELSE m[x]]

Min(a, b) == IF a < b THEN a ELSE b

(***************************************************************************)
(* object_store.go: constants                                              *)
(***************************************************************************)
blockSizeConfigKey == "blockSizeInBytes"
maxBlockSize == 104857600
defaultBlockSize == 1048576

(***************************************************************************)
(* strconv.Atoi, as getBlockSize uses it.  The text is an optional sign    *)
(* followed by one or more ASCII digits; anything else is a syntax error,  *)
(* and a value outside the range of a 64-bit int is a range error.         *)
(* A magnitude of ten or more significant digits that is in range is       *)
(* reported as BigMagnitude: getBlockSize only compares it with 0 and      *)
(* maxBlockSize, and every such value is above maxBlockSize.               *)
(***************************************************************************)
Digits == {"0", "1", "2", "3", "4", "5", "6", "7", "8", "9"}

DigitVal(c) ==
    CASE c = "0" -> 0 [] c = "1" -> 1 [] c = "2" -> 2 [] c = "3" -> 3
      [] c = "4" -> 4 [] c = "5" -> 5 [] c = "6" -> 6 [] c = "7" -> 7
      [] c = "8" -> 8 [] c = "9" -> 9

DigitChar(d) ==
    CASE d = 0 -> "0" [] d = 1 -> "1" [] d = 2 -> "2" [] d = 3 -> "3"
      [] d = 4 -> "4" [] d = 5 -> "5" [] d = 6 -> "6" [] d = 7 -> "7"
      [] d = 8 -> "8" [] d = 9 -> "9"

RECURSIVE StripZeros(_)
StripZeros(d) ==
    IF Len(d) > 0 /\ d[1] = "0" THEN StripZeros(Tail(d)) ELSE d

\* -1, 0, 1 as digit string a (no leading zeros) is below, equal to, above b
RECURSIVE CmpSameLen(_, _)
CmpSameLen(a, b) ==
    IF Len(a) = 0 THEN 0
    ELSE IF DigitVal(a[1]) < DigitVal(b[1]) THEN -1
    ELSE IF DigitVal(a[1]) > DigitVal(b[1]) THEN 1
    ELSE CmpSameLen(Tail(a), Tail(b))

CmpDigits(a, b) ==
    IF Len(a) < Len(b) THEN -1
    ELSE IF Len(a) > Len(b) THEN 1
    ELSE CmpSameLen(a, b)

RECURSIVE DigitsToInt(_)
DigitsToInt(d) ==
    IF Len(d) = 0 THEN 0
    ELSE DigitsToInt(SubSeq(d, 1, Len(d) - 1)) * 10 + DigitVal(d[Len(d)])

MaxInt64Digits ==
    <<"9","2","2","3","3","7","2","0","3","6","8","5","4","7","7","5","8","0","7">>
MinInt64Digits ==
    <<"9","2","2","3","3","7","2","0","3","6","8","5","4","7","7","5","8","0","8">>
BigMagnitude == 1000000000

Atoi(s) ==
    LET signed == Len(s) > 0 /\ s[1] \in {"+", "-"}
        neg    == Len(s) > 0 /\ s[1] = "-"
        body   == IF signed THEN Tail(s) ELSE s
        syntax == Len(body) = 0 \/ \E i \in 1..Len(body) : body[i] \notin Digits
        mag    == StripZeros(body)
        limit  == IF neg THEN MinInt64Digits ELSE MaxInt64Digits
        abs    == IF Len(mag) >= 10 THEN BigMagnitude ELSE DigitsToInt(mag)
    IN  IF syntax THEN [err |-> TRUE, val |-> 0]
        ELSE IF CmpDigits(mag, limit) > 0 THEN [err |-> TRUE, val |-> 0]
        ELSE [err |-> FALSE, val |-> IF neg THEN 0 - abs ELSE abs]

(***************************************************************************)
(* object_store.go: getBlockSize                                           *)
(***************************************************************************)
\* getBlockSize without the clamp to maxBlockSize
getBlockSize_NoClamp(config) ==
    IF blockSizeConfigKey \notin DOMAIN config THEN defaultBlockSize
    ELSE LET r == Atoi(config[blockSizeConfigKey])
         IN  IF r.err THEN defaultBlockSize
             ELSE IF r.val <= 0 THEN defaultBlockSize
             ELSE r.val

getBlockSize(config) ==
    IF blockSizeConfigKey \notin DOMAIN config THEN defaultBlockSize
    ELSE LET r == Atoi(config[blockSizeConfigKey])
         IN  IF r.err THEN defaultBlockSize
             ELSE IF r.val <= 0 THEN defaultBlockSize
             ELSE IF r.val > maxBlockSize THEN maxBlockSize
             ELSE r.val

(***************************************************************************)
(* Inputs of getBlockSize: every text of at most MaxLen characters over a  *)
(* small alphabet, and the texts at the edges of the comparisons.          *)
(***************************************************************************)
Alphabet == {"0", "1", "2", "9", "-", "+", "x", " ", "_", "."}

ShortTexts == UNION {[1..n -> Alphabet] : n \in 0..MaxLen}

EdgeTexts ==
    { <<"1","0","4","8","5","7","0">>,
      <<"1","0","4","8","5","7","6">>,
      <<"1","0","4","8","5","7","6","0","0">>,
      <<"1","0","4","8","5","7","6","0","1">>,
      <<"1","0","4","8","5","7","6","0","0","0">>,
      <<"+","1","0","4","8","5","7","6","0","0">>,
      <<"-","1","0","4","8","5","7","6","0","1">>,
      <<"0","0","0","0","0","0","0","0","0","0","0","0","0","0","0","0","0","0","0","0","7">>,
      MaxInt64Digits,
      MinInt64Digits,
      <<"-">> \o MinInt64Digits,
      <<"-">> \o MaxInt64Digits,
      <<"-","9","2","2","3","3","7","2","0","3","6","8","5","4","7","7","5","8","0","9">>,
      <<"9","9","9","9","9","9","9","9","9","9","9","9","9","9","9","9","9","9","9","9">> }

BlockSizeTexts == ShortTexts \cup EdgeTexts

BlockSizeConfigs ==
    {EmptyMap} \cup {Put(EmptyMap, blockSizeConfigKey, t) : t \in BlockSizeTexts}

(***************************************************************************)
(* Config keys (object_store.go, common.go, volume_snapshotter.go, and the *)
(* BSLConfig... names of velero's util/azure package) and the credential   *)
(* keys found in a credentials file or in the environment.                 *)
(***************************************************************************)
resourceGroupConfigKey == "resourceGroup"
credentialsFileConfigKey == "credentialsFile"
subscriptionIDConfigKey == "subscriptionId"
storageAccountConfigKey == "storageAccount"
storageAccountKeyEnvVarConfigKey == "storageAccountKeyEnvVar"
storageAccountURIConfigKey == "storageAccountURI"
useAADConfigKey == "useAAD"
activeDirectoryAuthorityURIConfigKey == "activeDirectoryAuthorityURI"
ApiVersion == "apiVersion"

credentialsFileEnvVar == "AZURE_CREDENTIALS_FILE"
subscriptionIDEnvVar == "AZURE_SUBSCRIPTION_ID"
resourceGroupEnvVar == "AZURE_RESOURCE_GROUP"
cloudNameEnvVar == "AZURE_CLOUD_NAME"
tenantIDEnvVar == "AZURE_TENANT_ID"
clientIDEnvVar == "AZURE_CLIENT_ID"
clientSecretEnvVar == "AZURE_CLIENT_SECRET"
federatedTokenFileEnvVar == "AZURE_FEDERATED_TOKEN_FILE"
storageKeyCredentialKey == "AZURE_STORAGE_KEY"

(***************************************************************************)
(* Cloud names.  The value of AZURE_CLOUD_NAME is a sequence of            *)
(* one-character strings; a map without the key yields the empty name.     *)
(***************************************************************************)
AzureCloud == <<"A", "z", "u", "r", "e", "C", "l", "o", "u", "d">>
AzurePublicCloud == <<"A", "z", "u", "r", "e", "P", "u", "b", "l", "i", "c", "C", "l", "o", "u", "d">>
AzureChinaCloud == <<"A", "z", "u", "r", "e", "C", "h", "i", "n", "a", "C", "l", "o", "u", "d">>
AzureUSGovernment == <<"A", "z", "u", "r", "e", "U", "S", "G", "o", "v", "e", "r", "n", "m", "e", "n", "t">>
AzureUSGovernmentCloud == AzureUSGovernment \o <<"C", "l", "o", "u", "d">>
AzureStackCloud == <<"A", "z", "u", "r", "e", "S", "t", "a", "c", "k", "C", "l", "o", "u", "d">>
AzureGermanCloud == <<"A", "z", "u", "r", "e", "G", "e", "r", "m", "a", "n", "C", "l", "o", "u", "d">>

CloudNameOf(m) == IF cloudNameEnvVar \in DOMAIN m THEN m[cloudNameEnvVar] ELSE <<>>

(***************************************************************************)
(* The files of the plugin's pod.  A credentials file is the map godotenv  *)
(* reads from it; UnreadableFiles exist but do not parse.                  *)
(***************************************************************************)
CloudCredentialsFile == "/credentials/cloud"
KeyCredentialsFile == "/credentials/key"
BareCredentialsFile == "/credentials/bare"
BrokenCredentialsFile == "/credentials/broken"
MissingCredentialsFile == "/credentials/missing"
AccessKeyName == "AZURE_STORAGE_ACCOUNT_ACCESS_KEY"

FileSystem ==
    (CloudCredentialsFile :>
        ( (subscriptionIDEnvVar :> "sub-cloud") @@ (resourceGroupEnvVar :> "rg-cloud")
       @@ (tenantIDEnvVar :> "tenant") @@ (clientIDEnvVar :> "client")
       @@ (clientSecretEnvVar :> "secret") @@ (cloudNameEnvVar :> AzurePublicCloud) ))
 @@ (KeyCredentialsFile :>
        ( (AccessKeyName :> "key-from-file") @@ (cloudNameEnvVar :> AzureChinaCloud) ))
 @@ (BareCredentialsFile :>
        ( (subscriptionIDEnvVar :> "sub-bare") @@ (resourceGroupEnvVar :> "rg-bare") ))
 @@ (BrokenCredentialsFile :> EmptyMap)

UnreadableFiles == {BrokenCredentialsFile}

(***************************************************************************)
(* Answers of the Azure management plane during one Init.                  *)
(***************************************************************************)
ApiOutcomes == [listKeys : {"ok", "fail"}, getProperties : {"ok", "fail"}]

(***************************************************************************)
(* velero plugin framework: ValidateObjectStoreConfigKeys (which always    *)
(* admits bucket and prefix) and ValidateVolumeSnapshotterConfigKeys.      *)
(***************************************************************************)
\* a validation that admits every key
validateConfigKeys_Lenient(config, validKeys) == ""

validateConfigKeys(config, validKeys) ==
    IF \E k \in DOMAIN config : k \notin validKeys
    THEN "config has invalid keys" ELSE ""

ValidateObjectStoreConfigKeys(config, validKeys) ==
    validateConfigKeys(config, validKeys \cup {"bucket", "prefix"})

ValidateVolumeSnapshotterConfigKeys(config, validKeys) ==
    validateConfigKeys(config, validKeys)

(***************************************************************************)
(* strconv.ParseBool                                                       *)
(***************************************************************************)
ParseBool(s) ==
    IF s \in {"1", "t", "T", "TRUE", "true", "True"} THEN [err |-> FALSE, val |-> TRUE]
    ELSE IF s \in {"0", "f", "F", "FALSE", "false", "False"} THEN [err |-> FALSE, val |-> FALSE]
    ELSE [err |-> TRUE, val |-> FALSE]

(***************************************************************************)
(* strings.ToUpper and strings.ToLower                                     *)
(***************************************************************************)
UpperCase ==
    LET lower == <<"a", "b", "c", "d", "e", "f", "g", "h", "i", "j", "k", "l", "m",
                   "n", "o", "p", "q", "r", "s", "t", "u", "v", "w", "x", "y", "z">>
        upper == <<"A", "B", "C", "D", "E", "F", "G", "H", "I", "J", "K", "L", "M",
                   "N", "O", "P", "Q", "R", "S", "T", "U", "V", "W", "X", "Y", "Z">>
    IN  [c \in {lower[i] : i \in 1 .. 26} |-> upper[CHOOSE i \in 1 .. 26 : lower[i] = c]]

\* strings.ToUpper that leaves every character as it is
ToUpper_Identity(s) == s

\* strings.ToUpper: every lower-case letter replaced by its upper-case letter
ToUpper(s) == [i \in 1 .. Len(s) |-> IF s[i] \in DOMAIN UpperCase THEN UpperCase[s[i]] ELSE s[i]]

\* strings.ToLower on the texts of useAAD the model uses
ToLower(s) ==
    CASE s \in {"true", "True", "TRUE"} -> "true"
      [] s \in {"false", "False", "FALSE"} -> "false"
      [] OTHER -> s

(***************************************************************************)
(* util: getCloudConfiguration (cloud.go of package util)                  *)
(***************************************************************************)
AzurePublic == [name |-> "AzurePublic",
                ActiveDirectoryAuthorityHost |-> "https://login.microsoftonline.com/",
                blob |-> "blob.core.windows.net", storage |-> ""]
AzureChina == [name |-> "AzureChina",
               ActiveDirectoryAuthorityHost |-> "https://login.chinacloudapi.cn/",
               blob |-> "blob.core.chinacloudapi.cn", storage |-> ""]
AzureGovernment == [name |-> "AzureGovernment",
                    ActiveDirectoryAuthorityHost |-> "https://login.microsoftonline.us/",
                    blob |-> "blob.core.usgovcloudapi.net", storage |-> ""]
NoCloud == [name |-> "", ActiveDirectoryAuthorityHost |-> "", blob |-> "", storage |-> ""]

\* the package variables of azcore/cloud as the SDK initialises them
BuiltinClouds ==
    [AzurePublic |-> AzurePublic, AzureChina |-> AzureChina, AzureGovernment |-> AzureGovernment]

\* the upper-case names of the switch statements
AZURECLOUD == <<"A", "Z", "U", "R", "E", "C", "L", "O", "U", "D">>
AZUREPUBLICCLOUD == <<"A", "Z", "U", "R", "E", "P", "U", "B", "L", "I", "C", "C", "L", "O", "U", "D">>
AZURECHINACLOUD == <<"A", "Z", "U", "R", "E", "C", "H", "I", "N", "A", "C", "L", "O", "U", "D">>
AZUREUSGOVERNMENT == <<"A", "Z", "U", "R", "E", "U", "S", "G", "O", "V", "E", "R", "N", "M", "E", "N", "T">>
AZUREUSGOVERNMENTCLOUD == AZUREUSGOVERNMENT \o <<"C", "L", "O", "U", "D">>

getCloudConfiguration(locationCfg, creds) ==
    LET name == CloudNameOf(creds)
        activeDirectoryAuthorityURI == Get(locationCfg, activeDirectoryAuthorityURIConfigKey)
        up   == ToUpper(name)
        base == IF up \in {<<>>, AZURECLOUD, AZUREPUBLICCLOUD} THEN AzurePublic
                ELSE IF up = AZURECHINACLOUD THEN AzureChina
                ELSE IF up \in {AZUREUSGOVERNMENT, AZUREUSGOVERNMENTCLOUD} THEN AzureGovernment
                ELSE NoCloud
    IN  IF base.name = "" THEN [err |-> "unknown cloud", cfg |-> NoCloud]
        ELSE [err |-> "",
              cfg |-> IF activeDirectoryAuthorityURI # ""
                      THEN [base EXCEPT !.ActiveDirectoryAuthorityHost = activeDirectoryAuthorityURI]
                      ELSE base]

(***************************************************************************)
(* velero util/azure, as util.NewStorageClient calls it: LoadCredentials,  *)
(* GetFromLocationConfigOrCredential, NewCredential and                    *)
(* GetStorageAccountCredentials.                                           *)
(***************************************************************************)
LoadCredentials(config, environ) ==
    LET credFile == IF Get(config, credentialsFileConfigKey) # ""
                    THEN config[credentialsFileConfigKey]
                    ELSE Get(environ, credentialsFileEnvVar)
    IN  IF credFile = "" THEN [err |-> "", creds |-> EmptyMap, file |-> ""]
        ELSE IF credFile \notin DOMAIN FileSystem \/ credFile \in UnreadableFiles
        THEN [err |-> "failed to read credentials", creds |-> EmptyMap, file |-> credFile]
        ELSE [err |-> "", creds |-> FileSystem[credFile], file |-> credFile]

GetFromLocationConfigOrCredential(cfg, creds, cfgKey, credKey) ==
    IF Get(cfg, cfgKey) # "" THEN cfg[cfgKey] ELSE Get(creds, credKey)

\* an Azure AD credential that prefers workload identity to the client secret
NewCredential_WorkloadFirst(creds, environ) ==
    IF Get(environ, federatedTokenFileEnvVar) # ""
    THEN [err |-> "", kind |-> "workloadIdentity"]
    ELSE IF Get(creds, clientSecretEnvVar) # "" THEN
        IF Get(creds, tenantIDEnvVar) = "" \/ Get(creds, clientIDEnvVar) = ""
        THEN [err |-> "invalid service principal", kind |-> ""]
        ELSE [err |-> "", kind |-> "clientSecret"]
    ELSE [err |-> "", kind |-> "managedIdentity"]

\* the Azure AD credential: client secret, then workload identity, then
\* managed identity
NewCredential(creds, environ) ==
    IF Get(creds, clientSecretEnvVar) # "" THEN
        IF Get(creds, tenantIDEnvVar) = "" \/ Get(creds, clientIDEnvVar) = ""
        THEN [err |-> "invalid service principal", kind |-> ""]
        ELSE [err |-> "", kind |-> "clientSecret"]
    ELSE IF Get(environ, federatedTokenFileEnvVar) # ""
    THEN [err |-> "", kind |-> "workloadIdentity"]
    ELSE [err |-> "", kind |-> "managedIdentity"]

\* the management client of the storage account (storage.go of package util)
newStorageAccountManagemenClient(bslCfg, creds, environ) ==
    LET cloudCfg == getCloudConfiguration(bslCfg, creds)
        cred == NewCredential(creds, environ)
        subID == GetFromLocationConfigOrCredential(bslCfg, creds,
                     subscriptionIDConfigKey, subscriptionIDEnvVar)
    IN  IF cloudCfg.err # "" THEN [err |-> cloudCfg.err, kind |-> ""]
        ELSE IF cred.err # "" THEN [err |-> "failed to create Azure AD credential", kind |-> ""]
        ELSE IF subID = "" THEN [err |-> "subscription ID is required", kind |-> ""]
        ELSE [err |-> "", kind |-> cred.kind]

GetStorageAccountCredentials(bslCfg, creds, environ, api) ==
    LET name == Get(bslCfg, storageAccountKeyEnvVarConfigKey)
        useAAD == ParseBool(Get(bslCfg, useAADConfigKey))
        mgmt == newStorageAccountManagemenClient(bslCfg, creds, environ)
        resourceGroup == GetFromLocationConfigOrCredential(bslCfg, creds,
                             resourceGroupConfigKey, resourceGroupEnvVar)
    IN  IF name # "" THEN
            IF Get(creds, name) = ""
            THEN [err |-> "no storage account access key found in credential",
                  creds |-> creds, calls |-> <<>>]
            ELSE [err |-> "", creds |-> Put(creds, storageKeyCredentialKey, creds[name]),
                  calls |-> <<>>]
        ELSE IF Get(bslCfg, useAADConfigKey) # "" /\ useAAD.err
        THEN [err |-> "failed to parse bool from useAAD", creds |-> creds, calls |-> <<>>]
        ELSE IF Get(bslCfg, useAADConfigKey) # "" /\ useAAD.val
        THEN [err |-> "", creds |-> creds, calls |-> <<>>]
        ELSE IF mgmt.err # "" THEN [err |-> mgmt.err, creds |-> creds, calls |-> <<>>]
        ELSE IF resourceGroup = ""
        THEN [err |-> "resource group is required", creds |-> creds, calls |-> <<>>]
        ELSE IF api.listKeys = "ok"
        THEN [err |-> "", creds |-> Put(creds, storageKeyCredentialKey, "key-from-ListKeys"),
              calls |-> <<[op |-> "ListKeys", auth |-> mgmt.kind]>>]
        ELSE [err |-> "failed to get storage account access key", creds |-> creds,
              calls |-> <<[op |-> "ListKeys", auth |-> mgmt.kind]>>]

(***************************************************************************)
(* util: getStorageAccountURI and NewStorageClient (storage.go of package  *)
(* util)                                                                   *)
(***************************************************************************)
DefaultURI(storageAccount, endpoint) == "https://" \o storageAccount \o "." \o endpoint
PropertiesURI == "https://sa.z1.blob.storage.azure.net/"

\* getStorageAccountURI that gives up when the account's properties cannot be read
getStorageAccountURI_NoFallback(bslCfg, creds, environ, api) ==
    LET uri == Get(bslCfg, storageAccountURIConfigKey)
        storageAccount == Get(bslCfg, storageAccountConfigKey)
        cloudCfg == getCloudConfiguration(bslCfg, creds)
        default == DefaultURI(storageAccount, cloudCfg.cfg.blob)
        name == Get(bslCfg, storageAccountKeyEnvVarConfigKey)
        client == newStorageAccountManagemenClient(bslCfg, creds, environ)
        resourceGroup == GetFromLocationConfigOrCredential(bslCfg, creds,
                             resourceGroupConfigKey, resourceGroupEnvVar)
    IN  IF uri # "" THEN [err |-> "", uri |-> uri, calls |-> <<>>]
        ELSE IF cloudCfg.err # "" THEN [err |-> cloudCfg.err, uri |-> "", calls |-> <<>>]
        ELSE IF name # "" /\ Get(creds, name) # ""
        THEN [err |-> "", uri |-> default, calls |-> <<>>]
        ELSE IF client.err # "" THEN [err |-> "", uri |-> default, calls |-> <<>>]
        ELSE IF resourceGroup = "" THEN [err |-> "", uri |-> default, calls |-> <<>>]
        ELSE IF api.getProperties = "ok"
        THEN [err |-> "", uri |-> PropertiesURI,
              calls |-> <<[op |-> "GetProperties", auth |-> client.kind, err |-> ""]>>]
        ELSE [err |-> "GetProperties failed", uri |-> "",
              calls |-> <<[op |-> "GetProperties", auth |-> client.kind,
                           err |-> "GetProperties failed"]>>]

getStorageAccountURI(bslCfg, creds, environ, api) ==
    LET uri == Get(bslCfg, storageAccountURIConfigKey)
        storageAccount == Get(bslCfg, storageAccountConfigKey)
        cloudCfg == getCloudConfiguration(bslCfg, creds)
        default == DefaultURI(storageAccount, cloudCfg.cfg.blob)
        name == Get(bslCfg, storageAccountKeyEnvVarConfigKey)
        client == newStorageAccountManagemenClient(bslCfg, creds, environ)
        resourceGroup == GetFromLocationConfigOrCredential(bslCfg, creds,
                             resourceGroupConfigKey, resourceGroupEnvVar)
    IN  IF uri # "" THEN [err |-> "", uri |-> uri, calls |-> <<>>]
        ELSE IF cloudCfg.err # "" THEN [err |-> cloudCfg.err, uri |-> "", calls |-> <<>>]
        ELSE IF name # "" /\ Get(creds, name) # ""
        THEN [err |-> "", uri |-> default, calls |-> <<>>]
        ELSE IF client.err # "" THEN [err |-> "", uri |-> default, calls |-> <<>>]
        ELSE IF resourceGroup = "" THEN [err |-> "", uri |-> default, calls |-> <<>>]
        ELSE IF api.getProperties = "ok"
        THEN [err |-> "", uri |-> PropertiesURI,
              calls |-> <<[op |-> "GetProperties", auth |-> client.kind, err |-> ""]>>]
        ELSE [err |-> "", uri |-> default,
              calls |-> <<[op |-> "GetProperties", auth |-> client.kind,
                           err |-> "GetProperties failed"]>>]

NoClient == [auth |-> "none", uri |-> "", key |-> "", cloud |-> NoCloud]
NoSharedKey == [account |-> "", key |-> ""]

\* NewStorageClient after its check that storageAccount is set
newStorageClientForAccount(config, environ, api) ==
    LET loaded == LoadCredentials(config, environ)
        sa     == GetStorageAccountCredentials(config, loaded.creds, environ, api)
        uri    == getStorageAccountURI(config, sa.creds, environ, api)
        cloudCfg == getCloudConfiguration(config, sa.creds)
        accessKey == Get(sa.creds, storageKeyCredentialKey)
        cred   == NewCredential(sa.creds, environ)
        read   == IF loaded.file = "" THEN <<>>
                  ELSE <<[op |-> "ReadCredentialsFile", file |-> loaded.file]>>
        fail(e, c) == [err |-> e, client |-> NoClient, cred |-> NoSharedKey, calls |-> c]
    IN  IF loaded.err # "" THEN fail(loaded.err, read)
        ELSE IF sa.err # "" THEN fail(sa.err, read \o sa.calls)
        ELSE IF cloudCfg.err # "" THEN fail(cloudCfg.err, read \o sa.calls \o uri.calls)
        ELSE IF accessKey # ""
        THEN [err |-> "",
              client |-> [auth |-> "sharedKey", uri |-> uri.uri, key |-> accessKey,
                          cloud |-> cloudCfg.cfg],
              cred |-> [account |-> Get(config, storageAccountConfigKey), key |-> accessKey],
              calls |-> read \o sa.calls \o uri.calls
                        \o <<[op |-> "NewClientWithSharedKeyCredential"]>>]
        ELSE IF cred.err # "" THEN fail(cred.err, read \o sa.calls \o uri.calls)
        ELSE [err |-> "",
              client |-> [auth |-> cred.kind, uri |-> uri.uri, key |-> "",
                          cloud |-> cloudCfg.cfg],
              cred |-> NoSharedKey,
              calls |-> read \o sa.calls \o uri.calls \o <<[op |-> "NewClient"]>>]

NewStorageClient(config, environ, api) ==
    IF Get(config, storageAccountConfigKey) = ""
    THEN [err |-> "storageAccount is required in BSL", client |-> NoClient,
          cred |-> NoSharedKey, calls |-> <<>>]
    ELSE newStorageClientForAccount(config, environ, api)

(***************************************************************************)
(* object_store.go: ObjectStore.Init                                       *)
(***************************************************************************)
ObjectStoreValidKeys ==
    { resourceGroupConfigKey, storageAccountConfigKey, subscriptionIDConfigKey,
      blockSizeConfigKey, activeDirectoryAuthorityURIConfigKey,
      storageAccountURIConfigKey, useAADConfigKey, storageAccountKeyEnvVarConfigKey,
      credentialsFileConfigKey, ApiVersion }

Idle == put.pc = "idle" /\ list.pc = "idle"

\* an Init that stores the credential before it looks at the error of
\* NewStorageClient
ObjectStoreInit_AssignFirst(config, api) ==
    /\ Idle
    /\ \E invalid \in {ValidateObjectStoreConfigKeys(config, ObjectStoreValidKeys)} :
       \E r \in {NewStorageClient(config, env, api)} :
           IF invalid # "" THEN
               /\ store' = store
               /\ calls' = <<>>
               /\ ret' = [op |-> "ObjectStore.Init", config |-> config, err |-> invalid]
           ELSE IF r.err # "" THEN
               /\ store' = [store EXCEPT !.sharedKeyCredential = r.cred]
               /\ calls' = r.calls
               /\ ret' = [op |-> "ObjectStore.Init", config |-> config, err |-> r.err]
           ELSE
               /\ store' = [store EXCEPT !.sharedKeyCredential = r.cred,
                                         !.containerGetter = r.client,
                                         !.blobGetter = r.client,
                                         !.blockSize = getBlockSize(config)]
               /\ calls' = r.calls
               /\ ret' = [op |-> "ObjectStore.Init", config |-> config, err |-> ""]
    /\ UNCHANGED <<clouds, inits, compute, env, snap, blob, put, list>>

ObjectStoreInit(config, api) ==
    /\ Idle
    /\ \E invalid \in {ValidateObjectStoreConfigKeys(config, ObjectStoreValidKeys)} :
       \E r \in {NewStorageClient(config, env, api)} :
           IF invalid # "" THEN
               /\ store' = store
               /\ calls' = <<>>
               /\ ret' = [op |-> "ObjectStore.Init", config |-> config, err |-> invalid]
           ELSE IF r.err # "" THEN
               /\ store' = store
               /\ calls' = r.calls
               /\ ret' = [op |-> "ObjectStore.Init", config |-> config, err |-> r.err]
           ELSE
               /\ store' = [store EXCEPT !.sharedKeyCredential = r.cred,
                                         !.containerGetter = r.client,
                                         !.blobGetter = r.client,
                                         !.blockSize = getBlockSize(config)]
               /\ calls' = r.calls
               /\ ret' = [op |-> "ObjectStore.Init", config |-> config, err |-> ""]
    /\ UNCHANGED <<clouds, inits, compute, env, snap, blob, put, list>>

(***************************************************************************)
(* common.go: selectCredentialsFile, loadCredentialsIntoEnv (godotenv's    *)
(* Overload), cloudFromName, getRequiredValues                             *)
(***************************************************************************)
credentialsFileFromEnv(environ) == Get(environ, credentialsFileEnvVar)

selectCredentialsFile(config, environ) ==
    IF credentialsFileConfigKey \in DOMAIN config THEN
        IF config[credentialsFileConfigKey] \notin DOMAIN FileSystem
        THEN [err |-> "provided credentialsFile does not exist", file |-> ""]
        ELSE [err |-> "", file |-> config[credentialsFileConfigKey]]
    ELSE [err |-> "", file |-> credentialsFileFromEnv(environ)]

Overload(environ, vals) ==
    [k \in DOMAIN environ \cup DOMAIN vals |->
        IF k \in DOMAIN vals THEN vals[k] ELSE environ[k]]

loadCredentialsIntoEnv(credentialsFile, environ) ==
    IF credentialsFile = "" THEN [err |-> "", env |-> environ]
    ELSE IF credentialsFile \notin DOMAIN FileSystem \/ credentialsFile \in UnreadableFiles
    THEN [err |-> "error loading environment from credentials file", env |-> environ]
    ELSE [err |-> "", env |-> Overload(environ, FileSystem[credentialsFile])]

cloudFromName(cloudName) ==
    LET up == ToUpper(cloudName)
    IN  IF up = AZURECHINACLOUD
        THEN [err |-> "", cfg |-> [AzureChina EXCEPT !.storage = "core.chinacloudapi.cn"]]
        ELSE IF up \in {<<>>, AZURECLOUD, AZUREPUBLICCLOUD}
        THEN [err |-> "", cfg |-> [AzurePublic EXCEPT !.storage = "core.windows.net"]]
        ELSE IF up \in {AZUREUSGOVERNMENT, AZUREUSGOVERNMENTCLOUD}
        THEN [err |-> "", cfg |-> [AzureGovernment EXCEPT !.storage = "core.usgovcloudapi.net"]]
        ELSE [err |-> "there is no cloud matching the name", cfg |-> NoCloud]

\* the keys without a value; getRequiredValues fails when there is one
missingValues(getValue, keys) == {k \in keys : Get(getValue, k) = ""}

\* getRequiredValues that reports no missing key
getRequiredValues_Lenient(getValue, keys) ==
    [err |-> "", results |-> [k \in keys |-> Get(getValue, k)]]

getRequiredValues(getValue, keys) ==
    IF missingValues(getValue, keys) # {}
    THEN [err |-> "the following keys do not have values", results |-> EmptyMap]
    ELSE [err |-> "", results |-> [k \in keys |-> getValue[k]]]

(***************************************************************************)
(* azidentity.NewDefaultAzureCredential: the environment's service         *)
(* principal, then workload identity, then managed identity.               *)
(***************************************************************************)
NewDefaultAzureCredential(environ) ==
    IF /\ Get(environ, tenantIDEnvVar) # "" /\ Get(environ, clientIDEnvVar) # ""
       /\ Get(environ, clientSecretEnvVar) # ""
    THEN "clientSecret"
    ELSE IF Get(environ, federatedTokenFileEnvVar) # "" THEN "workloadIdentity"
    ELSE "managedIdentity"

(***************************************************************************)
(* object_store.go, the generation that reads the process environment:     *)
(* getStorageAccountKey, getBlobServicUrl, fetchStorageAccountKey,         *)
(* getServiceClient and Init                                               *)
(***************************************************************************)
getStorageAccountKey(config, environ) ==
    IF Get(config, storageAccountKeyEnvVarConfigKey) # ""
    THEN Get(environ, config[storageAccountKeyEnvVarConfigKey])
    ELSE ""

populateEnvVarsFromCredentialsFile(config, environ) ==
    LET sel == selectCredentialsFile(config, environ)
    IN  IF sel.err # "" THEN [err |-> sel.err, env |-> environ, file |-> ""]
        ELSE [err |-> loadCredentialsIntoEnv(sel.file, environ).err,
              env |-> loadCredentialsIntoEnv(sel.file, environ).env,
              file |-> sel.file]

getBlobServicUrl(credential, subscription, resouceGroup, storageAccount, storageAccountURI, defaultStorageEndpointSuffix, api) ==
    IF storageAccountURI # "" THEN [url |-> storageAccountURI, calls |-> <<>>]
    ELSE IF subscription = "" \/ resouceGroup = "" \/ storageAccount = ""
    THEN [url |-> "https://" \o storageAccount \o ".blob." \o defaultStorageEndpointSuffix,
          calls |-> <<>>]
    ELSE IF api.getProperties = "ok"
    THEN [url |-> PropertiesURI,
          calls |-> <<[op |-> "GetProperties", auth |-> credential, err |-> ""]>>]
    ELSE [url |-> "https://" \o storageAccount \o ".blob." \o defaultStorageEndpointSuffix,
          calls |-> <<[op |-> "GetProperties", auth |-> credential,
                       err |-> "GetProperties failed"]>>]

fetchStorageAccountKey(credential, subscription, resouceGroup, storageAccount, api) ==
    IF subscription = "" \/ resouceGroup = "" \/ storageAccount = ""
    THEN [err |-> "parameter cannot be empty", key |-> "", calls |-> <<>>]
    ELSE IF api.listKeys = "ok"
    THEN [err |-> "", key |-> "key-from-ListKeys",
          calls |-> <<[op |-> "ListKeys", auth |-> credential]>>]
    ELSE [err |-> "ListKeys failed", key |-> "",
          calls |-> <<[op |-> "ListKeys", auth |-> credential]>>]

getServiceClient(storageAccount, subscription, resouceGroup, storageAccountURI, useAAD, sharedKeyCredential, cloud, environ, api) ==
    LET credential == NewDefaultAzureCredential(environ)
        serviceURL == getBlobServicUrl(credential, subscription, resouceGroup, storageAccount,
                                       storageAccountURI, cloud.storage, api)
        fetched    == fetchStorageAccountKey(credential, subscription, resouceGroup,
                                             storageAccount, api)
        localSharedKeyCredential ==
            IF sharedKeyCredential = NoSharedKey
            THEN [account |-> storageAccount, key |-> fetched.key]
            ELSE sharedKeyCredential
        fetchCalls == IF sharedKeyCredential = NoSharedKey THEN fetched.calls ELSE <<>>
    IN  IF sharedKeyCredential = NoSharedKey /\ ToLower(useAAD) = "true"
        THEN [err |-> "",
              client |-> [auth |-> credential, uri |-> serviceURL.url, key |-> "",
                          cloud |-> cloud],
              cred |-> NoSharedKey,
              calls |-> serviceURL.calls \o <<[op |-> "NewClient"]>>]
        ELSE IF sharedKeyCredential = NoSharedKey /\ fetched.err # ""
        THEN [err |-> fetched.err, client |-> NoClient, cred |-> NoSharedKey,
              calls |-> serviceURL.calls \o fetchCalls]
        ELSE [err |-> "",
              client |-> [auth |-> "sharedKey", uri |-> serviceURL.url,
                          key |-> localSharedKeyCredential.key, cloud |-> cloud],
              cred |-> localSharedKeyCredential,
              calls |-> serviceURL.calls \o fetchCalls
                        \o <<[op |-> "NewClientWithSharedKeyCredential"]>>]

ObjectStoreEnvValidKeys ==
    { resourceGroupConfigKey, storageAccountConfigKey, subscriptionIDConfigKey,
      blockSizeConfigKey, storageAccountURIConfigKey, useAADConfigKey,
      activeDirectoryAuthorityURIConfigKey, storageAccountKeyEnvVarConfigKey,
      credentialsFileConfigKey }

ReadCall(file) == IF file = "" THEN <<>> ELSE <<[op |-> "ReadCredentialsFile", file |-> file]>>

ObjectStoreInitEnv(config, api) ==
    LET invalid  == ValidateObjectStoreConfigKeys(config, ObjectStoreEnvValidKeys)
        loaded   == populateEnvVarsFromCredentialsFile(config, env)
        cloudRes == cloudFromName(CloudNameOf(loaded.env))
        cloudConfig ==
            IF Get(config, activeDirectoryAuthorityURIConfigKey) # ""
               /\ Get(config, useAADConfigKey) = "true"
            THEN [cloudRes.cfg EXCEPT !.ActiveDirectoryAuthorityHost =
                                          config[activeDirectoryAuthorityURIConfigKey]]
            ELSE cloudRes.cfg
        storageAccount == Get(config, storageAccountConfigKey)
        storageAccountKey == getStorageAccountKey(config, loaded.env)
        keyCredential == IF storageAccountKey # ""
                         THEN [account |-> storageAccount, key |-> storageAccountKey]
                         ELSE store.sharedKeyCredential
        subscriptionID == IF Get(config, subscriptionIDConfigKey) = ""
                          THEN Get(loaded.env, subscriptionIDEnvVar)
                          ELSE config[subscriptionIDConfigKey]
        r == getServiceClient(storageAccount, subscriptionID,
                              Get(config, resourceGroupConfigKey),
                              Get(config, storageAccountURIConfigKey),
                              Get(config, useAADConfigKey), keyCredential, cloudConfig,
                              loaded.env, api)
        result(e) == [op |-> "ObjectStore.Init", config |-> config, err |-> e]
    IN  /\ Idle
        /\ IF invalid # "" THEN
               /\ env' = env /\ store' = store /\ calls' = <<>>
               /\ ret' = result(invalid)
           ELSE IF loaded.err # "" THEN
               /\ env' = loaded.env /\ store' = store /\ calls' = ReadCall(loaded.file)
               /\ ret' = result(loaded.err)
           ELSE IF storageAccount = "" THEN
               /\ env' = loaded.env /\ store' = store /\ calls' = ReadCall(loaded.file)
               /\ ret' = result("storageAccount not defined")
           ELSE IF cloudRes.err # "" THEN
               /\ env' = loaded.env
               /\ store' = [store EXCEPT !.storageAccount = storageAccount]
               /\ calls' = ReadCall(loaded.file)
               /\ ret' = result(cloudRes.err)
           ELSE IF r.err # "" THEN
               /\ env' = loaded.env
               /\ store' = [store EXCEPT !.storageAccount = storageAccount,
                                         !.sharedKeyCredential = NoSharedKey]
               /\ calls' = ReadCall(loaded.file) \o r.calls
               /\ ret' = result(r.err)
           ELSE
               /\ env' = loaded.env
               /\ store' = [store EXCEPT !.storageAccount = storageAccount,
                                         !.sharedKeyCredential = r.cred,
                                         !.containerGetter = r.client,
                                         !.blobGetter = r.client,
                                         !.blockSize = getBlockSize(config)]
               /\ calls' = ReadCall(loaded.file) \o r.calls
               /\ ret' = result("")
        /\ UNCHANGED <<clouds, inits, compute, snap, blob, put, list>>

(***************************************************************************)
(* volume_snapshotter.go: VolumeSnapshotter.Init                           *)
(***************************************************************************)
apiTimeoutConfigKey == "apiTimeout"
snapsIncrementalConfigKey == "incremental"
snapsTagsConfigKey == "tags"
snapsActiveDirectoryAuthorityURIConfigKey == "activeDirectoryAuthorityURI"

\* time.ParseDuration on the texts the model uses, in seconds
ParseDuration(val) ==
    CASE val = "30s" -> [err |-> FALSE, val |-> 30]
      [] val = "5m"  -> [err |-> FALSE, val |-> 300]
      [] val = "-1m" -> [err |-> FALSE, val |-> 0 - 60]
      [] val = "0"   -> [err |-> FALSE, val |-> 0]
      [] OTHER       -> [err |-> TRUE, val |-> 0]

\* azuredisk-csi-driver's util.ConvertTagsToMap on the texts the model uses
ConvertTagsToMap(val) ==
    CASE val = "team=a" -> [err |-> FALSE, tags |-> (<<"t", "e", "a", "m">> :> "a")]
      [] val = "team=a,env=b" ->
             [err |-> FALSE, tags |-> (<<"t", "e", "a", "m">> :> "a") @@ (<<"e", "n", "v">> :> "b")]
      [] OTHER -> [err |-> TRUE, tags |-> EmptyMap]

VolumeSnapshotterValidKeys ==
    { resourceGroupConfigKey, apiTimeoutConfigKey, subscriptionIDConfigKey,
      snapsIncrementalConfigKey, snapsTagsConfigKey, credentialsFileConfigKey }

NoArmClient == [auth |-> "none", subscription |-> "", cloud |-> NoCloud]

VolumeSnapshotterInit(config) ==
    LET invalid  == ValidateVolumeSnapshotterConfigKeys(config, VolumeSnapshotterValidKeys)
        sel      == selectCredentialsFile(config, env)
        loaded   == loadCredentialsIntoEnv(sel.file, env)
        envVars  == getRequiredValues(loaded.env, {subscriptionIDEnvVar, resourceGroupEnvVar})
        val      == Get(config, subscriptionIDConfigKey)
        snapshotsSubscriptionID == IF val # "" THEN val ELSE envVars.results[subscriptionIDEnvVar]
        cloudRes == cloudFromName(CloudNameOf(loaded.env))
        cloudConfig ==
            IF Get(config, snapsActiveDirectoryAuthorityURIConfigKey) # ""
            THEN [cloudRes.cfg EXCEPT !.ActiveDirectoryAuthorityHost =
                                          config[snapsActiveDirectoryAuthorityURIConfigKey]]
            ELSE cloudRes.cfg
        timeout  == ParseDuration(Get(config, apiTimeoutConfigKey))
        apiTimeout == IF Get(config, apiTimeoutConfigKey) = "" THEN 120 ELSE timeout.val
        credential == NewDefaultAzureCredential(loaded.env)
        incr     == ParseBool(Get(config, snapsIncrementalConfigKey))
        snapshotsIncremental ==
            IF Get(config, snapsIncrementalConfigKey) = "" THEN "nil"
            ELSE IF incr.val THEN "true" ELSE "false"
        tags     == ConvertTagsToMap(Get(config, snapsTagsConfigKey))
        result(e) == [op |-> "VolumeSnapshotter.Init", config |-> config, err |-> e]
        failed(e, environ, c) ==
            /\ env' = environ /\ snap' = snap /\ calls' = c /\ ret' = result(e)
    IN  /\ Idle
        /\ IF invalid # "" THEN failed(invalid, env, <<>>)
           ELSE IF sel.err # "" THEN failed(sel.err, env, <<>>)
           ELSE IF loaded.err # "" THEN failed(loaded.err, loaded.env, ReadCall(sel.file))
           ELSE IF envVars.err # ""
           THEN failed("unable to get all required environment variables", loaded.env,
                       ReadCall(sel.file))
           ELSE IF val # "" /\ getRequiredValues(config, {resourceGroupConfigKey}).err # ""
           THEN failed("resourceGroup not specified", loaded.env, ReadCall(sel.file))
           ELSE IF cloudRes.err # "" THEN failed(cloudRes.err, loaded.env, ReadCall(sel.file))
           ELSE IF Get(config, apiTimeoutConfigKey) # "" /\ timeout.err
           THEN failed("unable to parse apiTimeout", loaded.env, ReadCall(sel.file))
           ELSE IF Get(config, snapsIncrementalConfigKey) # "" /\ incr.err
           THEN failed("unable to parse incremental", loaded.env, ReadCall(sel.file))
           ELSE IF Get(config, snapsTagsConfigKey) # "" /\ tags.err
           THEN failed("unable to parse tags", loaded.env, ReadCall(sel.file))
           ELSE
               /\ env' = loaded.env
               /\ snap' = [disks |-> [auth |-> credential,
                                      subscription |-> envVars.results[subscriptionIDEnvVar],
                                      cloud |-> cloudConfig],
                           snaps |-> [auth |-> credential,
                                      subscription |-> snapshotsSubscriptionID,
                                      cloud |-> cloudConfig],
                           disksSubscription |-> envVars.results[subscriptionIDEnvVar],
                           snapsSubscription |-> snapshotsSubscriptionID,
                           disksResourceGroup |-> envVars.results[resourceGroupEnvVar],
                           snapsResourceGroup |->
                               IF Get(config, resourceGroupConfigKey) = ""
                               THEN envVars.results[resourceGroupEnvVar]
                               ELSE config[resourceGroupConfigKey],
                           snapsIncremental |-> snapshotsIncremental,
                           apiTimeout |-> apiTimeout,
                           snapsTags |-> IF Get(config, snapsTagsConfigKey) = ""
                                         THEN EmptyMap ELSE tags.tags]
               /\ calls' = ReadCall(sel.file)
                           \o <<[op |-> "NewDisksClient"], [op |-> "NewSnapshotsClient"]>>
               /\ ret' = result("")
        /\ UNCHANGED <<clouds, inits, compute, store, blob, put, list>>

(***************************************************************************)
(* Idle values of the variables an operation does not use.                 *)
(***************************************************************************)
NoEnv == EmptyMap
\* newObjectStore and newVolumeSnapshotter: every field but log is zero
NewObjectStore == [containerGetter |-> NoClient, blobGetter |-> NoClient, blockSize |-> 0,
                   storageAccount |-> "", sharedKeyCredential |-> NoSharedKey]
NewVolumeSnapshotter ==
    [disks |-> NoArmClient, snaps |-> NoArmClient, disksSubscription |-> "",
     snapsSubscription |-> "", disksResourceGroup |-> "", snapsResourceGroup |-> "",
     snapsIncremental |-> "nil", apiTimeout |-> 0, snapsTags |-> EmptyMap]
\* a resource provider without disks and snapshots
NoCompute == [disks |-> <<>>, snapshots |-> <<>>]

NoBlob == [exists |-> FALSE, content |-> <<>>, staged |-> EmptyMap]
NoPut == [pc |-> "idle"]
NoList == [pc |-> "idle"]
NoRet == [op |-> "none"]
NoInits == [snap |-> [pc |-> "idle"], store |-> [pc |-> "idle"]]

(***************************************************************************)
(* Specification of getBlockSize as a function of the config.              *)
(***************************************************************************)
InitBlockSize ==
    /\ env = NoEnv /\ store = NewObjectStore /\ snap = NewVolumeSnapshotter
    /\ blob = NoBlob /\ calls = <<>> /\ put = NoPut /\ list = NoList
    /\ ret = NoRet
    /\ compute = NoCompute
    /\ inits = NoInits /\ clouds = BuiltinClouds

GetBlockSizeCall ==
    \E config \in BlockSizeConfigs :
        /\ ret' = [op |-> "getBlockSize", config |-> config,
                   size |-> getBlockSize(config)]
        /\ UNCHANGED <<clouds, inits, compute, env, store, snap, blob, calls, put, list>>

NextBlockSize == GetBlockSizeCall

SpecBlockSize == InitBlockSize /\ [][NextBlockSize]_vars

(***************************************************************************)
(* What the text of blockSizeInBytes denotes, read as mathematics rather   *)
(* than by strconv.Atoi: an optionally signed run of digits is a decimal   *)
(* integer of any size.                                                    *)
(***************************************************************************)
TextBody(t) == IF Len(t) > 0 /\ t[1] \in {"+", "-"} THEN Tail(t) ELSE t
IsDecimalInteger(t) ==
    Len(TextBody(t)) > 0 /\ \A i \in 1..Len(TextBody(t)) : TextBody(t)[i] \in Digits
TextMagnitude(t) == StripZeros(TextBody(t))
TextIsNegative(t) == Len(t) > 0 /\ t[1] = "-"
TextLeqZero(t) == TextIsNegative(t) \/ Len(TextMagnitude(t)) = 0

RECURSIVE IntToDigits(_)
IntToDigits(n) ==
    IF n < 10 THEN <<DigitChar(n)>>
    ELSE Append(IntToDigits(n \div 10), DigitChar(n % 10))

TextGtMax(t) ==
    ~TextLeqZero(t) /\ CmpDigits(TextMagnitude(t), IntToDigits(maxBlockSize)) > 0
TextFitsInt(t) ==
    CmpDigits(TextMagnitude(t),
              IF TextIsNegative(t) THEN MinInt64Digits ELSE MaxInt64Digits) <= 0

\* C5 as stated: the default when blockSizeInBytes is absent, is not a decimal
\* integer or is <= 0; the maximum when the value is above the maximum;
\* otherwise the parsed value.
C5_AsStated ==
    ret.op = "getBlockSize" =>
        IF blockSizeConfigKey \notin DOMAIN ret.config
        THEN ret.size = defaultBlockSize
        ELSE LET t == ret.config[blockSizeConfigKey]
             IN  IF ~IsDecimalInteger(t) \/ TextLeqZero(t)
                 THEN ret.size = defaultBlockSize
                 ELSE IF TextGtMax(t) THEN ret.size = maxBlockSize
                 ELSE ret.size = DigitsToInt(TextMagnitude(t))

\* C5 amended: getBlockSize returns the default when blockSizeInBytes is
\* absent, is not an optionally signed run of decimal digits, does not fit a
\* 64-bit int (strconv.Atoi reports a range error), or is <= 0; the maximum
\* when the value fits and is above the maximum; otherwise the parsed value.
C5_BlockSize ==
    ret.op = "getBlockSize" =>
        IF blockSizeConfigKey \notin DOMAIN ret.config
        THEN ret.size = defaultBlockSize
        ELSE LET t == ret.config[blockSizeConfigKey]
             IN  IF ~IsDecimalInteger(t) \/ ~TextFitsInt(t) \/ TextLeqZero(t)
                 THEN ret.size = defaultBlockSize
                 ELSE IF TextGtMax(t) THEN ret.size = maxBlockSize
                 ELSE ret.size = DigitsToInt(TextMagnitude(t))

\* a value above the maximum that fits an int was clamped to the maximum
C5_Witness ==
    /\ ret.op = "getBlockSize"
    /\ blockSizeConfigKey \in DOMAIN ret.config
    /\ IsDecimalInteger(ret.config[blockSizeConfigKey])
    /\ TextFitsInt(ret.config[blockSizeConfigKey])
    /\ TextGtMax(ret.config[blockSizeConfigKey])
    /\ ret.size = maxBlockSize

(***************************************************************************)
(* Specification of the plugin process's Init calls.  The process starts   *)
(* with one of StartEnvs as its environment; velero then calls Init on the *)
(* object store and on the volume snapshotter with the config of a backup  *)
(* storage location or of a volume snapshot location.                      *)
(***************************************************************************)
StartEnvs ==
    { EmptyMap,
      (credentialsFileEnvVar :> CloudCredentialsFile),
      (federatedTokenFileEnvVar :> "/var/run/secrets/token") @@ (tenantIDEnvVar :> "tenant")
          @@ (clientIDEnvVar :> "client") @@ (subscriptionIDEnvVar :> "sub-env")
          @@ (resourceGroupEnvVar :> "rg-env") }

Account == (storageAccountConfigKey :> "sa")
Group == (resourceGroupConfigKey :> "rg") @@ (subscriptionIDConfigKey :> "sub")
URI == (storageAccountURIConfigKey :> "https://sa.privatelink.example/")
KeyVar == (storageAccountKeyEnvVarConfigKey :> AccessKeyName)
AAD == (useAADConfigKey :> "true")
File(f) == (credentialsFileConfigKey :> f)

ObjectStoreConfigs ==
    { EmptyMap,
      Account,
      Account @@ Group,
      Account @@ AAD,
      Account @@ (useAADConfigKey :> "maybe") @@ Group,
      Account @@ KeyVar,
      Account @@ KeyVar @@ File(KeyCredentialsFile),
      Account @@ KeyVar @@ AAD @@ Group @@ File(KeyCredentialsFile),
      Account @@ Group @@ File(CloudCredentialsFile),
      Account @@ File(CloudCredentialsFile) @@ ("bucket" :> "b") @@ ("prefix" :> "p")
          @@ (ApiVersion :> "2020-10-02"),
      Account @@ File(MissingCredentialsFile),
      Account @@ File(BrokenCredentialsFile),
      Account @@ AAD @@ (blockSizeConfigKey :> <<"2">>),
      Account @@ AAD @@ (activeDirectoryAuthorityURIConfigKey :> "https://login.example/"),
      Account @@ AAD @@ URI,
      Account @@ URI @@ Group @@ File(CloudCredentialsFile),
      URI @@ AAD,
      URI @@ KeyVar @@ File(KeyCredentialsFile),
      URI @@ AAD @@ (storageAccountConfigKey :> ""),
      Account @@ AAD @@ File(CloudCredentialsFile) @@ ("snapshotLocation" :> "x"),
      Account @@ KeyVar @@ File(KeyCredentialsFile) @@ ("resourceGroups" :> "rg") }

VolumeSnapshotterConfigs ==
    { EmptyMap,
      File(CloudCredentialsFile),
      File(BareCredentialsFile) @@ (resourceGroupConfigKey :> "rg-snap"),
      File(MissingCredentialsFile),
      File(BrokenCredentialsFile),
      (subscriptionIDConfigKey :> "sub-snap"),
      (subscriptionIDConfigKey :> "sub-snap") @@ (resourceGroupConfigKey :> ""),
      Group @@ (apiTimeoutConfigKey :> "5m") @@ (snapsIncrementalConfigKey :> "true")
          @@ (snapsTagsConfigKey :> "team=a"),
      (apiTimeoutConfigKey :> "soon"),
      File(CloudCredentialsFile) @@ (snapsIncrementalConfigKey :> "yes"),
      File(CloudCredentialsFile) @@ (snapsTagsConfigKey :> "team"),
      File(CloudCredentialsFile)
          @@ (snapsActiveDirectoryAuthorityURIConfigKey :> "https://login.example/"),
      File(KeyCredentialsFile) @@ ("storageAccount" :> "sa") }

\* the locations of a process that serves both kinds of location
SharedProcessConfigs ==
    { EmptyMap,
      Account @@ AAD,
      Account @@ Group,
      Account @@ KeyVar @@ File(KeyCredentialsFile),
      Account @@ Group @@ File(CloudCredentialsFile),
      Account @@ File(CloudCredentialsFile) @@ ("bucket" :> "b") @@ ("prefix" :> "p")
          @@ (ApiVersion :> "2020-10-02"),
      Account @@ AAD @@ File(CloudCredentialsFile) @@ ("snapshotLocation" :> "x"),
      Account @@ KeyVar @@ File(KeyCredentialsFile) @@ ("resourceGroups" :> "rg") }

InitInit ==
    /\ env \in StartEnvs
    /\ store = NewObjectStore /\ snap = NewVolumeSnapshotter
    /\ blob = NoBlob /\ calls = <<>> /\ put = NoPut /\ list = NoList
    /\ ret = NoRet
    /\ compute = NoCompute
    /\ inits = NoInits /\ clouds = BuiltinClouds

NextInit ==
    \/ \E config \in SharedProcessConfigs, api \in ApiOutcomes : ObjectStoreInit(config, api)
    \/ \E config \in VolumeSnapshotterConfigs : VolumeSnapshotterInit(config)

SpecInit == InitInit /\ [][NextInit]_vars

(***************************************************************************)
(* Specification of the object store's Init calls alone.                   *)
(***************************************************************************)
NextStoreInit ==
    \E config \in ObjectStoreConfigs, api \in ApiOutcomes : ObjectStoreInit(config, api)

SpecStoreInit == InitInit /\ [][NextStoreInit]_vars

(***************************************************************************)
(* Specification of the Init calls of the object store generation that     *)
(* loads the credentials file into the process environment.                *)
(***************************************************************************)
StartEnvsEnv ==
    { EmptyMap,
      (credentialsFileEnvVar :> CloudCredentialsFile),
      (AccessKeyName :> "key-from-env") @@ (subscriptionIDEnvVar :> "sub-env"),
      (federatedTokenFileEnvVar :> "/var/run/secrets/token") @@ (tenantIDEnvVar :> "tenant")
          @@ (clientIDEnvVar :> "client") @@ (subscriptionIDEnvVar :> "sub-env") }

InitInitEnv ==
    /\ env \in StartEnvsEnv
    /\ store = NewObjectStore /\ snap = NewVolumeSnapshotter
    /\ blob = NoBlob /\ calls = <<>> /\ put = NoPut /\ list = NoList
    /\ ret = NoRet
    /\ compute = NoCompute
    /\ inits = NoInits /\ clouds = BuiltinClouds

NextInitEnv ==
    \E config \in ObjectStoreConfigs, api \in ApiOutcomes : ObjectStoreInitEnv(config, api)

SpecInitEnv == InitInitEnv /\ [][NextInitEnv]_vars

(***************************************************************************)
(* object_store.go: PutObject.  The body is an io.Reader over Bytes; one   *)
(* step of PutObjectLoop is one iteration of the for loop, and             *)
(* PutObjectCommit is the code after it.  The blob service keeps the       *)
(* staged (uncommitted) blocks by ID and, on PutBlockList, makes the       *)
(* listed blocks the content of the blob and drops the others.             *)
(***************************************************************************)
Take(q, n) == SubSeq(q, 1, n)
Drop(q, n) == SubSeq(q, n + 1, Len(q))

\* the bodies: the prefixes of a, b, a, b, ..., the empty body included; two
\* neighbouring bytes always differ, so a chunk out of place changes the content
Bytes == {"a", "b"}
Alternating(first, second) == [i \in 1 .. MaxBody |-> IF i % 2 = 1 THEN first ELSE second]
Bodies == {Take(Alternating("a", "b"), n) : n \in 0 .. MaxBody}

\* strconv's decimal digits of a natural number
RECURSIVE Itoa(_)
Itoa(n) == IF n < 10 THEN <<DigitChar(n)>> ELSE Append(Itoa(n \div 10), DigitChar(n % 10))

Zeros(n) == [i \in 1 .. n |-> "0"]

\* fmt.Sprintf("%d", n): no padding at all
Sprintf08d_Unpadded(n) == Itoa(n)

\* fmt.Sprintf("%08d", n) of n >= 0: at least 8 characters, zeros on the left
Sprintf08d(n) == Zeros(8 - Len(Itoa(n))) \o Itoa(n)

\* block[0:n] cut one byte short
chunkOf_Short(rest, n) == Take(rest, n - 1)

\* block[0:n] after Read has copied the next n bytes of the body into block
chunkOf(rest, n) == Take(rest, n)

\* the n > 0 test of the loop, without the test
hasData_Always(n) == TRUE

\* if n >= 0: a read of no bytes counts as data
hasData_NonNegative(n) == n >= 0

\* if n > 0
hasData(n) == n > 0

\* blockIDs = append(blockID, blockIDs...): the new ID in front
appendBlockID_Front(blockIDs, blockID) == <<blockID>> \o blockIDs

\* blockIDs = append(blockIDs, blockID)
appendBlockID(blockIDs, blockID) == Append(blockIDs, blockID)

\* what the reader may answer to Read(block): n bytes and err, with
\* 0 <= n <= len(block), io.EOF only with the last bytes of the body or after
\* them, and at most MaxZeroReads answers of (0, nil)
ReadAnswers(rest, blockLen, zero) ==
    { a \in [n : 0 .. Min(blockLen, Len(rest)), err : {"nil", "EOF", "unexpected EOF"}] :
        /\ a.err = "EOF" => a.n = Len(rest)
        /\ (a.n = 0 /\ a.err = "nil") => zero < MaxZeroReads }

\* the content of a blob committed from the block list ids
RECURSIVE Concat(_, _)
Concat(staged, ids) ==
    IF ids = <<>> THEN <<>> ELSE staged[Head(ids)] \o Concat(staged, Tail(ids))

Inited == store.blobGetter # NoClient

Panic(op) == [op |-> op, err |-> "panic: nil pointer dereference"]

PutObjectBegin(body) ==
    /\ Idle
    /\ IF ~Inited
       THEN /\ ret' = Panic("PutObject") /\ put' = put
       ELSE /\ put' = [pc |-> "loop", body |-> body, rest |-> body,
                       block |-> store.blockSize, blockIDs |-> <<>>, zero |-> 0,
                       read |-> "none"]
            /\ ret' = [op |-> "PutObject", err |-> "running"]
    /\ calls' = <<>>
    /\ UNCHANGED <<clouds, inits, compute, env, store, snap, blob, list>>

\* the loop without its two error returns: whatever PutBlock or Read reported,
\* the blocks staged so far are committed
PutObjectLoop_CommitAnyway ==
    /\ put.pc = "loop"
    /\ \E a \in ReadAnswers(put.rest, put.block, put.zero), putErr \in {"", "PutBlock failed"} :
        LET blockID == Sprintf08d(Len(put.blockIDs))
            chunk   == chunkOf(put.rest, a.n)
            staged  == hasData(a.n)
        IN  /\ ~staged => putErr = ""
            /\ calls' = IF staged
                        THEN Append(calls, [op |-> "PutBlock", blockID |-> blockID,
                                            chunk |-> chunk, err |-> putErr])
                        ELSE calls
            /\ blob' = IF staged /\ putErr = ""
                       THEN [blob EXCEPT !.staged = Put(blob.staged, blockID, chunk)]
                       ELSE blob
            /\ put' = [put EXCEPT !.pc = IF a.err = "nil" /\ putErr = "" THEN "loop"
                                         ELSE "commit",
                                  !.rest = Drop(put.rest, a.n),
                                  !.blockIDs = IF staged /\ putErr = ""
                                               THEN appendBlockID(put.blockIDs, blockID)
                                               ELSE put.blockIDs,
                                  !.read = a.err,
                                  !.zero = IF a.n = 0 THEN put.zero + 1 ELSE put.zero]
            /\ ret' = ret
    /\ UNCHANGED <<clouds, inits, compute, env, store, snap, list>>

PutObjectLoop ==
    /\ put.pc = "loop"
    /\ \E a \in ReadAnswers(put.rest, put.block, put.zero), putErr \in {"", "PutBlock failed"} :
        LET blockID == Sprintf08d(Len(put.blockIDs))
            chunk   == chunkOf(put.rest, a.n)
            call    == [op |-> "PutBlock", blockID |-> blockID, chunk |-> chunk,
                        err |-> putErr]
            staged  == hasData(a.n)
            blockIDs == IF staged THEN appendBlockID(put.blockIDs, blockID)
                        ELSE put.blockIDs
        IN  /\ ~staged => putErr = ""
            /\ calls' = IF staged THEN Append(calls, call) ELSE calls
            /\ IF staged /\ putErr # "" THEN
                   /\ blob' = blob
                   /\ put' = NoPut
                   /\ ret' = [op |-> "PutObject", body |-> put.body,
                              err |-> "error putting block", read |-> a.err]
               ELSE
                   /\ blob' = IF staged
                              THEN [blob EXCEPT !.staged = Put(blob.staged, blockID, chunk)]
                              ELSE blob
                   /\ IF a.err = "EOF" THEN
                          /\ put' = [put EXCEPT !.pc = "commit", !.rest = Drop(put.rest, a.n),
                                                !.blockIDs = blockIDs, !.read = a.err]
                          /\ ret' = ret
                      ELSE IF a.err # "nil" THEN
                          /\ put' = NoPut
                          /\ ret' = [op |-> "PutObject", body |-> put.body,
                                     err |-> "error reading block from body",
                                     read |-> a.err]
                      ELSE
                          /\ put' = [put EXCEPT !.rest = Drop(put.rest, a.n),
                                                !.blockIDs = blockIDs, !.read = a.err,
                                                !.zero = IF a.n = 0 THEN put.zero + 1
                                                         ELSE put.zero]
                          /\ ret' = ret
    /\ UNCHANGED <<clouds, inits, compute, env, store, snap, list>>

PutObjectCommit ==
    /\ put.pc = "commit"
    /\ \E err \in {"", "PutBlockList failed"} :
        /\ calls' = Append(calls, [op |-> "PutBlockList", blocks |-> put.blockIDs,
                                   err |-> err])
        /\ IF err # "" THEN
               /\ blob' = blob
               /\ ret' = [op |-> "PutObject", body |-> put.body,
                          err |-> "error putting block list"]
           ELSE
               /\ blob' = [exists |-> TRUE, content |-> Concat(blob.staged, put.blockIDs),
                           staged |-> EmptyMap]
               /\ ret' = [op |-> "PutObject", body |-> put.body, err |-> ""]
    /\ put' = NoPut
    /\ UNCHANGED <<clouds, inits, compute, env, store, snap, list>>

(***************************************************************************)
(* object_store.go: azureBlob.Exists, ObjectExists, GetObject and          *)
(* DeleteObject.  ServiceAnswers is what the blob service may answer to a  *)
(* request on the blob: the answer its state calls for, or a failure of    *)
(* the request itself.                                                     *)
(***************************************************************************)
ServiceAnswers ==
    IF blob.exists THEN {"ok", "ServerBusy"}
    ELSE {"BlobNotFound", "ContainerNotFound", "ServerBusy"}

\* Exists that reports only a missing blob, not a missing container, as absent
Exists_BlobOnly(answer) ==
    IF answer = "ok" THEN [exists |-> TRUE, err |-> ""]
    ELSE IF answer = "BlobNotFound" THEN [exists |-> FALSE, err |-> ""]
    ELSE [exists |-> FALSE, err |-> answer]

Exists(answer) ==
    IF answer = "ok" THEN [exists |-> TRUE, err |-> ""]
    ELSE IF answer \in {"ContainerNotFound", "BlobNotFound"} THEN [exists |-> FALSE, err |-> ""]
    ELSE [exists |-> FALSE, err |-> answer]

ObjectExists ==
    /\ Idle
    /\ IF ~Inited THEN ret' = Panic("ObjectExists") /\ calls' = <<>>
       ELSE \E answer \in ServiceAnswers :
            /\ calls' = <<[op |-> "GetProperties", answer |-> answer]>>
            /\ ret' = IF Exists(answer).err # ""
                      THEN [op |-> "ObjectExists", exists |-> FALSE, err |-> Exists(answer).err]
                      ELSE [op |-> "ObjectExists", exists |-> Exists(answer).exists, err |-> ""]
    /\ UNCHANGED <<clouds, inits, compute, env, store, snap, blob, put, list>>

GetObject ==
    /\ Idle
    /\ IF ~Inited THEN ret' = Panic("GetObject") /\ calls' = <<>>
       ELSE \E answer \in ServiceAnswers :
            /\ calls' = <<[op |-> "DownloadStream", answer |-> answer]>>
            /\ ret' = IF answer = "ok"
                      THEN [op |-> "GetObject", body |-> blob.content, err |-> ""]
                      ELSE [op |-> "GetObject", body |-> <<>>, err |-> answer]
    /\ UNCHANGED <<clouds, inits, compute, env, store, snap, blob, put, list>>

DeleteObject ==
    /\ Idle
    /\ IF ~Inited THEN ret' = Panic("DeleteObject") /\ calls' = <<>> /\ blob' = blob
       ELSE \E answer \in ServiceAnswers :
            /\ calls' = <<[op |-> "Delete", answer |-> answer]>>
            /\ blob' = IF answer = "ok"
                       THEN [blob EXCEPT !.exists = FALSE, !.content = <<>>]
                       ELSE blob
            /\ ret' = [op |-> "DeleteObject", err |-> IF answer = "ok" THEN "" ELSE answer]
    /\ UNCHANGED <<clouds, inits, compute, env, store, snap, put, list>>

(***************************************************************************)
(* Specification of the object store's operations on one blob.             *)
(***************************************************************************)
BlockSizeOf(t) == (blockSizeConfigKey :> t)

PutConfigs ==
    { Account @@ AAD @@ URI @@ BlockSizeOf(<<"1","0","4","8","5","7","6","0","1">>),
      Account @@ AAD @@ URI @@ BlockSizeOf(<<"2">>),
      URI @@ AAD @@ BlockSizeOf(<<"2">>) }

InitPut ==
    /\ env = NoEnv
    /\ store = NewObjectStore /\ snap = NewVolumeSnapshotter
    /\ blob = NoBlob /\ calls = <<>> /\ put = NoPut /\ list = NoList
    /\ ret = NoRet
    /\ compute = NoCompute
    /\ inits = NoInits /\ clouds = BuiltinClouds

NextPut ==
    \/ \E config \in PutConfigs : \E api \in {a \in ApiOutcomes : a.listKeys = "ok" /\ a.getProperties = "ok"} :
           ObjectStoreInit(config, api)
    \/ \E body \in Bodies : PutObjectBegin(body)
    \/ PutObjectLoop
    \/ PutObjectCommit
    \/ ObjectExists
    \/ GetObject
    \/ DeleteObject

SpecPut == InitPut /\ [][NextPut]_vars

(***************************************************************************)
(* Properties of PutObject, GetObject and ObjectExists                     *)
(***************************************************************************)
IsPutBlock(c) == c.op = "PutBlock"
IsPutBlockList(c) == c.op = "PutBlockList"
PutBlocks == SelectSeq(calls, IsPutBlock)
PutBlockLists == SelectSeq(calls, IsPutBlockList)
StagedIDs == [i \in 1 .. Len(PutBlocks) |-> PutBlocks[i].blockID]

RECURSIVE ChunksOf(_)
ChunksOf(cs) == IF cs = <<>> THEN <<>> ELSE Head(cs).chunk \o ChunksOf(Tail(cs))

PutObjectReturned == put.pc = "idle" /\ ret.op = "PutObject"

\* C1: a PutObject whose body ended with io.EOF and whose PutBlock calls all
\* succeeded has called PutBlockList exactly once, as its last call, with the
\* block IDs of its PutBlock calls in staging order (the empty list for the
\* empty body); and whenever PutBlockList has been called, every byte of the
\* body had been staged before it
C1_CommitOnceInOrder ==
    /\ (PutObjectReturned /\ ret.err \in {"", "error putting block list"}) =>
           /\ Len(PutBlockLists) = 1
           /\ calls[Len(calls)].op = "PutBlockList"
           /\ calls[Len(calls)].blocks = StagedIDs
           /\ (ret.body = <<>> => calls[Len(calls)].blocks = <<>>)
    /\ put.pc = "commit" => (PutBlockLists = <<>> /\ put.rest = <<>>)
    /\ put.pc = "loop" => PutBlockLists = <<>>
    /\ (PutObjectReturned /\ PutBlockLists # <<>>) =>
           /\ Len(PutBlockLists) = 1
           /\ calls[Len(calls)].op = "PutBlockList"
           /\ \A i \in 1 .. Len(PutBlocks) : PutBlocks[i].err = ""
           /\ ChunksOf(PutBlocks) = ret.body

C1_Witness ==
    /\ PutObjectReturned /\ ret.err = ""
    /\ Len(PutBlocks) = 3
    /\ calls[Len(calls)].blocks = <<Sprintf08d(0), Sprintf08d(1), Sprintf08d(2)>>

\* C2: after a successful PutObject the chunks passed to PutBlock, concatenated
\* in the order of the committed block list, equal the body and are the
\* content of the blob; a successful GetObject returns the content of the
\* blob, so one that follows the PutObject returns the body
C2_RoundTrip ==
    /\ [](  /\ (PutObjectReturned /\ ret.err = "") =>
                   /\ ChunksOf(PutBlocks) = ret.body
                   /\ calls[Len(calls)].blocks = StagedIDs
                   /\ blob.exists /\ blob.content = ret.body
            /\ (ret.op = "GetObject" /\ ret.err = "") => ret.body = blob.content )
    /\ [][ (PutObjectReturned /\ ret.err = "" /\ ret'.op = "GetObject" /\ ret'.err = "")
               => ret'.body = ret.body ]_vars

C2_Witness ==
    /\ ret.op = "GetObject" /\ ret.err = ""
    /\ ret.body = <<"a", "b", "a">>

\* C3: the i-th PutBlock call of a PutObject (counting from 0) carries the
\* block ID that is 8 decimal digits with the value i; the block IDs of the
\* call are pairwise distinct and of one length
C3_BlockIDs ==
    /\ \A i \in 1 .. Len(PutBlocks) :
           /\ Len(PutBlocks[i].blockID) = 8
           /\ \A k \in 1 .. 8 : PutBlocks[i].blockID[k] \in Digits
           /\ DigitsToInt(PutBlocks[i].blockID) = i - 1
    /\ \A i, j \in 1 .. Len(PutBlocks) :
           /\ i # j => PutBlocks[i].blockID # PutBlocks[j].blockID
           /\ Len(PutBlocks[i].blockID) = Len(PutBlocks[j].blockID)

C3_Witness ==
    /\ Len(PutBlocks) = 3
    /\ PutBlocks[3].blockID = <<"0", "0", "0", "0", "0", "0", "0", "2">>

\* C4: every chunk passed to PutBlock is non-empty and no longer than the
\* block size of the store, which Init has set and which is at most 100 MiB
C4_ChunkBounds ==
    \A i \in 1 .. Len(PutBlocks) :
        /\ Inited
        /\ Len(PutBlocks[i].chunk) > 0
        /\ Len(PutBlocks[i].chunk) <= store.blockSize
        /\ store.blockSize <= 104857600

C4_Witness ==
    /\ Len(PutBlocks) = 2
    /\ store.blockSize = 2
    /\ Len(PutBlocks[1].chunk) = 2 /\ Len(PutBlocks[2].chunk) = 1

\* C8: ObjectExists returns (true, nil) when the existence check finds the
\* blob, (false, nil) when the blob or its container is not found, and
\* (false, err) with the error of the check otherwise; never true with an error
C8_ObjectExists ==
    (ret.op = "ObjectExists" /\ calls # <<>>) =>
        LET answer == calls[1].answer
        IN  /\ answer = "ok" => (ret.exists /\ ret.err = "")
            /\ answer \in {"BlobNotFound", "ContainerNotFound"} =>
                   (~ret.exists /\ ret.err = "")
            /\ answer \notin {"ok", "BlobNotFound", "ContainerNotFound"} =>
                   (~ret.exists /\ ret.err # "")
            /\ ~(ret.exists /\ ret.err # "")

C8_Witness ==
    /\ ret.op = "ObjectExists" /\ calls # <<>>
    /\ calls[1].answer = "ContainerNotFound"
    /\ ~ret.exists /\ ret.err = ""

(***************************************************************************)
(* object_store.go: ListObjects and ListCommonPrefixes.  A listing is the  *)
(* sequence of pages the service holds for the request; a page carries     *)
(* blob items and blob prefixes.  The pager reports More until it has      *)
(* fetched the last page, and it reports More before it has fetched any.   *)
(***************************************************************************)
Name(kind, page, i) == <<kind>> \o Itoa(page) \o Itoa(i)

\* a page of n blob items and n blob prefixes
PageOf(page, n) ==
    [BlobItems |-> [i \in 1 .. n |-> Name("o", page, i)],
     BlobPrefixes |-> [i \in 1 .. n |-> Name("p", page, i)]]

Listings ==
    UNION { { [j \in 1 .. k |-> PageOf(j, sizes[j])] : sizes \in [1 .. k -> 0 .. MaxNames] } :
            k \in 1 .. MaxPages }

NewPager(listing) == [pages |-> listing, fetched |-> 0]

\* a pager that reports More only before its first page
More_FirstPageOnly(pager) == pager.fetched = 0

\* runtime.Pager.More
More(pager) == pager.fetched = 0 \/ pager.pages # <<>>

ListObjectsBegin(listing) ==
    /\ Idle
    /\ IF store.containerGetter = NoClient
       THEN /\ ret' = Panic("ListObjects") /\ list' = list
       ELSE /\ list' = [pc |-> "ListObjects", listing |-> listing,
                        pager |-> NewPager(listing), names |-> <<>>]
            /\ ret' = [op |-> "ListObjects", err |-> "running"]
    /\ calls' = <<>>
    /\ UNCHANGED <<clouds, inits, compute, env, store, snap, blob, put>>

ListCommonPrefixesBegin(listing) ==
    /\ Idle
    /\ IF store.containerGetter = NoClient
       THEN /\ ret' = Panic("ListCommonPrefixes") /\ list' = list
       ELSE /\ list' = [pc |-> "ListCommonPrefixes", listing |-> listing,
                        pager |-> NewPager(listing), names |-> <<>>]
            /\ ret' = [op |-> "ListCommonPrefixes", err |-> "running"]
    /\ calls' = <<>>
    /\ UNCHANGED <<clouds, inits, compute, env, store, snap, blob, put>>

BlobItemNames(page) == page.BlobItems
BlobPrefixNames(page) == page.BlobPrefixes

\* the names each operation takes from a page
NamesOfPage(op, page) ==
    IF op = "ListObjects" THEN BlobItemNames(page) ELSE BlobPrefixNames(page)

\* one test of pager.More() and, when it holds, one iteration of the loop
ListStep(op) ==
    /\ list.pc = op
    /\ IF ~More(list.pager) THEN
           /\ ret' = [op |-> op, listing |-> list.listing, names |-> list.names, err |-> ""]
           /\ list' = NoList
           /\ calls' = calls
       ELSE \E err \in {"", "NextPage failed"} :
           /\ calls' = Append(calls, [op |-> "NextPage", err |-> err])
           /\ IF err # "" THEN
                  /\ ret' = [op |-> op, listing |-> list.listing, names |-> <<>>, err |-> err]
                  /\ list' = NoList
              ELSE
                  /\ list' = [list EXCEPT
                                 !.names = list.names \o NamesOfPage(op, Head(list.pager.pages)),
                                 !.pager = [pages |-> Tail(list.pager.pages),
                                            fetched |-> list.pager.fetched + 1]]
                  /\ ret' = ret
    /\ UNCHANGED <<clouds, inits, compute, env, store, snap, blob, put>>

ListObjectsLoop == ListStep("ListObjects")

ListCommonPrefixesLoop == ListStep("ListCommonPrefixes")

(***************************************************************************)
(* Specification of the listing operations.                                *)
(***************************************************************************)
ListConfigs == { Account @@ AAD @@ URI, URI @@ AAD }

InitList ==
    /\ env = NoEnv
    /\ store = NewObjectStore /\ snap = NewVolumeSnapshotter
    /\ blob = NoBlob /\ calls = <<>> /\ put = NoPut /\ list = NoList
    /\ ret = NoRet
    /\ compute = NoCompute
    /\ inits = NoInits /\ clouds = BuiltinClouds

NextList ==
    \/ \E config \in ListConfigs :
           ObjectStoreInit(config, [listKeys |-> "ok", getProperties |-> "ok"])
    \/ \E listing \in Listings : ListObjectsBegin(listing)
    \/ ListObjectsLoop
    \/ \E listing \in Listings : ListCommonPrefixesBegin(listing)
    \/ ListCommonPrefixesLoop

SpecList == InitList /\ [][NextList]_vars

RECURSIVE AllBlobItems(_)
AllBlobItems(pages) ==
    IF pages = <<>> THEN <<>> ELSE Head(pages).BlobItems \o AllBlobItems(Tail(pages))

RECURSIVE AllBlobPrefixes(_)
AllBlobPrefixes(pages) ==
    IF pages = <<>> THEN <<>> ELSE Head(pages).BlobPrefixes \o AllBlobPrefixes(Tail(pages))

ListReturned ==
    /\ list.pc = "idle" /\ ret.op \in {"ListObjects", "ListCommonPrefixes"}
    /\ calls # <<>>

\* C9: a listing operation that returns without error has fetched every
\* page of the listing and returns the names of all the pages in page order
\* (blob names for ListObjects, prefix names for ListCommonPrefixes); one that
\* returns the error of a failed page fetch returns no names
C9_ListAllPages ==
    ListReturned =>
        /\ ret.err = "" =>
               /\ Len(calls) = Len(ret.listing)
               /\ \A i \in 1 .. Len(calls) : calls[i].op = "NextPage" /\ calls[i].err = ""
               /\ ret.op = "ListObjects" => ret.names = AllBlobItems(ret.listing)
               /\ ret.op = "ListCommonPrefixes" => ret.names = AllBlobPrefixes(ret.listing)
        /\ ret.err # "" =>
               /\ ret.err = calls[Len(calls)].err
               /\ ret.names = <<>>

C9_Witness ==
    /\ ListReturned /\ ret.op = "ListCommonPrefixes" /\ ret.err = ""
    /\ Len(ret.listing) = 3
    /\ ret.names = <<Name("p", 1, 1), Name("p", 2, 1), Name("p", 3, 1)>>

(***************************************************************************)
(* Properties of Init                                                      *)
(***************************************************************************)
Called(op) == \E i \in 1 .. Len(calls) : calls[i].op = op

ObjectStoreInitReturned == ret.op = "ObjectStore.Init"
VolumeSnapshotterInitReturned == ret.op = "VolumeSnapshotter.Init"

\* the keys each Init names, and the two keys velero adds to the config of
\* every object store, which the framework's validation admits for all plugins
ObjectStoreAllowList ==
    { "resourceGroup", "storageAccount", "subscriptionId", "blockSizeInBytes",
      "activeDirectoryAuthorityURI", "storageAccountURI", "useAAD",
      "storageAccountKeyEnvVar", "credentialsFile", "apiVersion", "bucket", "prefix" }
VolumeSnapshotterAllowList ==
    { "resourceGroup", "apiTimeout", "subscriptionId", "incremental", "tags",
      "credentialsFile" }

HasUnknownKey(config, allowList) == \E k \in DOMAIN config : k \notin allowList

\* C6: an Init whose config holds a key outside the allow-list returns an
\* error, having read no credentials file and created no client, and leaves
\* the environment and both receivers as they were
C6_UnknownKeyRejected ==
    /\ []( /\ (ObjectStoreInitReturned /\ HasUnknownKey(ret.config, ObjectStoreAllowList))
                  => (ret.err # "" /\ calls = <<>>)
           /\ (VolumeSnapshotterInitReturned
                  /\ HasUnknownKey(ret.config, VolumeSnapshotterAllowList))
                  => (ret.err # "" /\ calls = <<>>) )
    /\ [][ (\/ ret'.op = "ObjectStore.Init"
               /\ HasUnknownKey(ret'.config, ObjectStoreAllowList)
            \/ ret'.op = "VolumeSnapshotter.Init"
               /\ HasUnknownKey(ret'.config, VolumeSnapshotterAllowList))
           => (env' = env /\ store' = store /\ snap' = snap) ]_vars

C6_Witness ==
    /\ ObjectStoreInitReturned
    /\ "snapshotLocation" \in DOMAIN ret.config
    /\ Get(ret.config, "credentialsFile") = CloudCredentialsFile
    /\ ret.err = "config has invalid keys" /\ calls = <<>>
    /\ store = NewObjectStore

\* what the credentials of the location hold, read as Init reads them
CredsOf(config) == LoadCredentials(config, env).creds
HoldsKey(config) ==
    /\ Get(config, "storageAccountKeyEnvVar") # ""
    /\ Get(CredsOf(config), config["storageAccountKeyEnvVar"]) # ""
ServicePrincipalAvailable(config) == Get(CredsOf(config), "AZURE_CLIENT_SECRET") # ""
WorkloadIdentityAvailable == Get(env, "AZURE_FEDERATED_TOKEN_FILE") # ""
UseAAD(config) == Get(config, "useAAD") \in {"1", "t", "T", "TRUE", "true", "True"}
AADKind(config) ==
    IF ServicePrincipalAvailable(config) THEN "clientSecret"
    ELSE IF WorkloadIdentityAvailable THEN "workloadIdentity"
    ELSE "managedIdentity"

C10_AsStated ==
    (ObjectStoreInitReturned /\ Get(ret.config, "storageAccountURI") # "") =>
        ret.err \notin {"storageAccount is required in BSL", "resource group is required"}

(***************************************************************************)
(* The blob service URL that Init settles on.                              *)
(***************************************************************************)
IsGetProperties(c) == c.op = "GetProperties"
GetPropertiesCalls == SelectSeq(calls, IsGetProperties)

\* https://<storageAccount>.<blob endpoint of the client's cloud>
DefaultURLOf(config) ==
    "https://" \o Get(config, "storageAccount") \o "." \o store.blobGetter.cloud.blob

\* C11: an Init given storageAccountURI makes no GetProperties call and, when
\* it succeeds, its client has exactly that URL; an Init not given it whose
\* GetProperties call was not made or failed succeeds with the default URL of
\* the storage account in the cloud's blob endpoint, and a failed
\* GetProperties call never makes Init fail
C11_StorageAccountURI ==
    ObjectStoreInitReturned =>
        /\ Get(ret.config, "storageAccountURI") # "" =>
               /\ GetPropertiesCalls = <<>>
               /\ ret.err = "" => store.blobGetter.uri = ret.config["storageAccountURI"]
        /\ ( /\ Get(ret.config, "storageAccountURI") = ""
             /\ ret.err = ""
             /\ (GetPropertiesCalls = <<>> \/ GetPropertiesCalls[1].err # "") ) =>
               store.blobGetter.uri = DefaultURLOf(ret.config)
        /\ (GetPropertiesCalls # <<>> /\ GetPropertiesCalls[1].err # "") => ret.err = ""

\* an Init without storageAccountURI whose GetProperties call failed
C11_Witness ==
    /\ ObjectStoreInitReturned /\ ret.err = ""
    /\ Get(ret.config, "storageAccountURI") = ""
    /\ GetPropertiesCalls # <<>> /\ GetPropertiesCalls[1].err # ""
    /\ store.blobGetter.uri = "https://sa.blob.core.windows.net"

\* an Init with storageAccountURI, a resource group and a service principal
C11_WitnessVerbatim ==
    /\ ObjectStoreInitReturned /\ ret.err = ""
    /\ Get(ret.config, "storageAccountURI") # "" /\ Get(ret.config, "resourceGroup") # ""
    /\ store.blobGetter.uri = ret.config["storageAccountURI"]
    /\ Called("ListKeys") /\ ~Called("GetProperties")

(***************************************************************************)
(* The volume snapshotter's Init and the keys of the volume snapshot       *)
(* location.                                                               *)
(***************************************************************************)
\* C12 as stated: an Init of the volume snapshotter whose config sets
\* activeDirectoryAuthorityURI is not refused for that key, and the clients of
\* an Init that succeeds have its value as their Active Directory authority host
C12_AsStated ==
    ( /\ VolumeSnapshotterInitReturned
      /\ Get(ret.config, "activeDirectoryAuthorityURI") # ""
      /\ DOMAIN ret.config \subseteq VolumeSnapshotterAllowList \cup {"activeDirectoryAuthorityURI"} ) =>
        /\ ret.err # "config has invalid keys"
        /\ ret.err = "" =>
               /\ snap.disks.cloud.ActiveDirectoryAuthorityHost
                      = ret.config["activeDirectoryAuthorityURI"]
               /\ snap.snaps.cloud.ActiveDirectoryAuthorityHost
                      = ret.config["activeDirectoryAuthorityURI"]

\* the config names a subscription for the snapshots but no resource group
SubscriptionWithoutGroup(config) ==
    Get(config, "subscriptionId") # "" /\ Get(config, "resourceGroup") = ""

\* C14: an Init of the volume snapshotter whose config sets subscriptionId but
\* not resourceGroup (or sets it to the empty text) returns an error, and the
\* call leaves the receiver with the clients it had: it creates none
C14_SubscriptionNeedsGroup ==
    /\ []( (VolumeSnapshotterInitReturned /\ SubscriptionWithoutGroup(ret.config))
               => ret.err # "" )
    /\ [][ (ret'.op = "VolumeSnapshotter.Init" /\ SubscriptionWithoutGroup(ret'.config))
               => snap' = snap ]_vars

\* the required environment values are there and only the resource group of
\* the snapshots is missing
C14_Witness ==
    /\ VolumeSnapshotterInitReturned
    /\ SubscriptionWithoutGroup(ret.config)
    /\ Get(env, "AZURE_SUBSCRIPTION_ID") # "" /\ Get(env, "AZURE_RESOURCE_GROUP") # ""
    /\ ret.err = "resourceGroup not specified"

(***************************************************************************)
(* Specification of the cloud-name resolution: getCloudConfiguration of    *)
(* package util and cloudFromName, applied to the spellings of a cloud     *)
(* name.  No metadata host and no environment file is configured.          *)
(***************************************************************************)
LowerCase == [c \in {UpperCase[l] : l \in DOMAIN UpperCase} |->
                 CHOOSE l \in DOMAIN UpperCase : UpperCase[l] = c]

\* the same character in the other case
SwapCase(c) == IF c \in DOMAIN UpperCase THEN UpperCase[c]
               ELSE IF c \in DOMAIN LowerCase THEN LowerCase[c]
               ELSE c

\* name in lower case, and name with the case of one character swapped
AllLower(name) == [i \in 1 .. Len(name) |-> IF name[i] \in DOMAIN LowerCase
                                            THEN LowerCase[name[i]] ELSE name[i]]
OneSwapped(name) ==
    { [i \in 1 .. Len(name) |-> IF i = k THEN SwapCase(name[i]) ELSE name[i]] :
          k \in 1 .. Len(name) }

KnownCloudNames ==
    { AzureCloud, AzurePublicCloud, AzureChinaCloud, AzureUSGovernment, AzureUSGovernmentCloud }

OtherCloudNames ==
    { AzureStackCloud, AzureGermanCloud, SubSeq(AzureCloud, 1, 5), AzureCloud \o <<" ">>,
      AzureChinaCloud \o <<"s">>, <<" ">> }

CloudNames ==
    {<<>>} \cup UNION { {name, ToUpper(name), AllLower(name)} \cup OneSwapped(name) :
                            name \in KnownCloudNames \cup OtherCloudNames }

InitCloud ==
    /\ env = NoEnv
    /\ store = NewObjectStore /\ snap = NewVolumeSnapshotter
    /\ blob = NoBlob /\ calls = <<>> /\ put = NoPut /\ list = NoList
    /\ ret = NoRet
    /\ compute = NoCompute
    /\ inits = NoInits /\ clouds = BuiltinClouds

GetCloudConfigurationCall(name, locationCfg) ==
    LET creds == IF name = <<>> THEN EmptyMap ELSE (cloudNameEnvVar :> name)
        r == getCloudConfiguration(locationCfg, creds)
    IN  /\ ret' = [op |-> "getCloudConfiguration", name |-> name, locationCfg |-> locationCfg,
                   cfg |-> r.cfg, err |-> r.err]
        /\ UNCHANGED <<clouds, inits, compute, env, store, snap, blob, calls, put, list>>

CloudFromNameCall(name) ==
    LET r == cloudFromName(name)
    IN  /\ ret' = [op |-> "cloudFromName", name |-> name, locationCfg |-> EmptyMap,
                   cfg |-> r.cfg, err |-> r.err]
        /\ UNCHANGED <<clouds, inits, compute, env, store, snap, blob, calls, put, list>>

NextCloud ==
    \/ \E name \in CloudNames :
       \E locationCfg \in {EmptyMap,
                           (activeDirectoryAuthorityURIConfigKey :> "https://login.example/")} :
           GetCloudConfigurationCall(name, locationCfg)
    \/ \E name \in CloudNames : CloudFromNameCall(name)

SpecCloud == InitCloud /\ [][NextCloud]_vars

\* a and b are the same text when the case of the letters is ignored
EqualFold(a, b) ==
    /\ Len(a) = Len(b)
    /\ \A i \in 1 .. Len(a) : a[i] = b[i] \/ a[i] = SwapCase(b[i])

IsSpellingOf(name, names) == \E n \in names : EqualFold(name, n)

\* the cloud a name stands for: "none" for a name of no built-in cloud
CloudOf(name) ==
    IF name = <<>> \/ IsSpellingOf(name, {AzureCloud, AzurePublicCloud}) THEN "AzurePublic"
    ELSE IF IsSpellingOf(name, {AzureChinaCloud}) THEN "AzureChina"
    ELSE IF IsSpellingOf(name, {AzureUSGovernment, AzureUSGovernmentCloud}) THEN "AzureGovernment"
    ELSE "none"

CloudResolved == ret.op \in {"getCloudConfiguration", "cloudFromName"}

\* C16: getCloudConfiguration and cloudFromName resolve a name, whatever the
\* case of its letters, to the public cloud for the empty name, AzureCloud and
\* AzurePublicCloud, to the China cloud for AzureChinaCloud and to the US
\* government cloud for AzureUSGovernment and AzureUSGovernmentCloud, and
\* return an error for every other name
C16_CloudNames ==
    CloudResolved =>
        IF CloudOf(ret.name) = "none" THEN ret.err # ""
        ELSE ret.err = "" /\ ret.cfg.name = CloudOf(ret.name)

\* a China cloud name in mixed case, resolved by both functions
C16_Witness ==
    /\ CloudResolved
    /\ ret.name \notin {AzureChinaCloud, AZURECHINACLOUD}
    /\ EqualFold(ret.name, AzureChinaCloud)
    /\ ret.err = "" /\ ret.cfg.name = "AzureChina"
    /\ ret.cfg.blob = "blob.core.chinacloudapi.cn"

(***************************************************************************)
(* volume_snapshotter.go: resource names.  The texts that the snapshotter  *)
(* cuts, joins and matches (disk names, snapshot names, resource IDs,      *)
(* zones, tag keys) are sequences of one-character strings.                *)
(***************************************************************************)
snapshotsResource == <<"s", "n", "a", "p", "s", "h", "o", "t", "s">>
disksResource == <<"d", "i", "s", "k", "s">>
diskCSIDriver == "disk.csi.azure.com"

\* the characters of a subscription ID or resource group name of the environment
Chars(s) ==
    CASE s = "sub-cloud" -> <<"s", "u", "b", "-", "c", "l", "o", "u", "d">>
      [] s = "rg-cloud" -> <<"r", "g", "-", "c", "l", "o", "u", "d">>
      [] s = "sub-bare" -> <<"s", "u", "b", "-", "b", "a", "r", "e">>
      [] s = "rg-bare" -> <<"r", "g", "-", "b", "a", "r", "e">>
      [] s = "sub-env" -> <<"s", "u", "b", "-", "e", "n", "v">>
      [] s = "rg-env" -> <<"r", "g", "-", "e", "n", "v">>
      [] s = "sub" -> <<"s", "u", "b">>
      [] s = "rg" -> <<"r", "g">>
      [] s = "sub-snap" -> <<"s", "u", "b", "-", "s", "n", "a", "p">>
      [] s = "rg-snap" -> <<"r", "g", "-", "s", "n", "a", "p">>
      [] s = "" -> <<>>

\* the same format with the resource group in the place of the subscription and
\* the subscription in the place of the resource group
getComputeResourceName_Swapped(subscription, resourceGroup, resource, name) ==
    <<"/", "s", "u", "b", "s", "c", "r", "i", "p", "t", "i", "o", "n", "s", "/">> \o resourceGroup
        \o <<"/", "r", "e", "s", "o", "u", "r", "c", "e", "G", "r", "o", "u", "p", "s", "/">>
        \o subscription
        \o <<"/", "p", "r", "o", "v", "i", "d", "e", "r", "s", "/">>
        \o <<"M", "i", "c", "r", "o", "s", "o", "f", "t", ".", "C", "o", "m", "p", "u", "t", "e", "/">>
        \o resource \o <<"/">> \o name

\* fmt.Sprintf("/subscriptions/%s/resourceGroups/%s/providers/Microsoft.Compute/%s/%s", ...)
getComputeResourceName(subscription, resourceGroup, resource, name) ==
    <<"/", "s", "u", "b", "s", "c", "r", "i", "p", "t", "i", "o", "n", "s", "/">> \o subscription
        \o <<"/", "r", "e", "s", "o", "u", "r", "c", "e", "G", "r", "o", "u", "p", "s", "/">>
        \o resourceGroup
        \o <<"/", "p", "r", "o", "v", "i", "d", "e", "r", "s", "/">>
        \o <<"M", "i", "c", "r", "o", "s", "o", "f", "t", ".", "C", "o", "m", "p", "u", "t", "e", "/">>
        \o resource \o <<"/">> \o name

\* regexp: the pattern pat matches text at position i; "ANY" in a pattern is
\* the regexp's dot, which matches every character but the line feed
MatchAt(text, pat, i) ==
    /\ i >= 1 /\ i + Len(pat) - 1 <= Len(text)
    /\ \A k \in 1 .. Len(pat) :
           IF pat[k] = "ANY" THEN text[i + k - 1] # "\n" ELSE text[i + k - 1] = pat[k]

\* the part of text from position i up to, not including, position j
Between(text, i, j) == SubSeq(text, i, j - 1)

\* the positions of the character c in text
Positions(text, c) == {k \in 1 .. Len(text) : text[k] = c}

Max(S) == CHOOSE x \in S : \A y \in S : y <= x

\* the literal parts of snapshotURIRegexp and diskURIRegexp
snapshotURISubscriptions == <<"/", "s", "u", "b", "s", "c", "r", "i", "p", "t", "i", "o", "n", "s", "/">>
snapshotURIResourceGroups == <<"/", "r", "e", "s", "o", "u", "r", "c", "e", "G", "r", "o", "u", "p", "s", "/">>
snapshotURISnapshots ==
    <<"/", "p", "r", "o", "v", "i", "d", "e", "r", "s", "/", "M", "i", "c", "r", "o", "s", "o", "f", "t">> \o <<"ANY">>
        \o <<"C", "o", "m", "p", "u", "t", "e", "/", "s", "n", "a", "p", "s", "h", "o", "t", "s", "/">>
diskURIRegexp == <<"/", "M", "i", "c", "r", "o", "s", "o", "f", "t">> \o <<"ANY">> \o <<"C", "o", "m", "p", "u", "t", "e", "/", "d", "i", "s", "k", "s", "/">>
diskURIPrefix == <<"/", "M", "i", "c", "r", "o", "s", "o", "f", "t", ".", "C", "o", "m", "p", "u", "t", "e", "/", "d", "i", "s", "k", "s", "/">>

\* snapshotURIRegexp.FindStringSubmatch and the loop over the named captures:
\* ^/subscriptions/(.*)/resourceGroups/(.*)/providers/Microsoft.Compute/snapshots/(.*)$
\* with each greedy group as long as the rest of the match allows, the first
\* group before the second
parseFullSnapshotName(name) ==
    LET p1 == snapshotURISubscriptions
        p2 == snapshotURIResourceGroups
        p3 == snapshotURISnapshots
        slashes == Positions(name, "/")
        feeds == Positions(name, "\n")
        ends(a) == { b \in slashes : /\ b >= a + Len(p2)
                                     /\ MatchAt(name, p3, b)
                                     /\ feeds \cap (a + Len(p2) .. b - 1) = {}
                                     /\ feeds \cap (b + Len(p3) .. Len(name)) = {} }
        starts == { a \in slashes : /\ a >= Len(p1) + 1
                                    /\ MatchAt(name, p2, a)
                                    /\ feeds \cap (Len(p1) + 1 .. a - 1) = {}
                                    /\ ends(a) # {} }
        a == Max(starts)
        b == Max(ends(a))
    IN  IF ~MatchAt(name, p1, 1) \/ starts = {}
        THEN [err |-> "snapshot URI could not be parsed",
              subscription |-> <<>>, resourceGroup |-> <<>>, name |-> <<>>]
        ELSE [err |-> "",
              subscription |-> Between(name, Len(p1) + 1, a),
              resourceGroup |-> Between(name, a + Len(p2), b),
              name |-> Between(name, b + Len(p3), Len(name) + 1)]

\* snapshotIdentifier.String
snapshotIdentifierString(si) ==
    getComputeResourceName(si.subscription, si.resourceGroup, snapshotsResource, si.name)

\* diskURIRegexp.FindString: the leftmost match of /Microsoft.Compute/disks/.*$
\* or the empty text
FindDiskURI(handle) ==
    LET feeds == Positions(handle, "\n")
        at == { i \in Positions(handle, "/") :
                    /\ MatchAt(handle, diskURIRegexp, i)
                    /\ feeds \cap (i + Len(diskURIRegexp) .. Len(handle)) = {} }
    IN  IF at = {} THEN <<>>
        ELSE Between(handle, CHOOSE i \in at : \A j \in at : i <= j, Len(handle) + 1)

\* strings.TrimPrefix
TrimPrefix(s, prefix) ==
    IF Len(s) >= Len(prefix) /\ SubSeq(s, 1, Len(prefix)) = prefix
    THEN SubSeq(s, Len(prefix) + 1, Len(s)) ELSE s

(***************************************************************************)
(* volume_snapshotter.go: getSnapshotTags.  A tag map is nil or a map from *)
(* tag keys to values; Go ranges over a map in no fixed order, so when two *)
(* Velero tag keys become the same key either value may end up in the map. *)
(***************************************************************************)
NilTags == [nil |-> TRUE, map |-> EmptyMap]
TagsOf(m) == [nil |-> FALSE, map |-> m]

\* strings.Replace(k, "/", "-", -1)
ReplaceSlashes(k) == [i \in 1 .. Len(k) |-> IF k[i] = "/" THEN "-" ELSE k[i]]

\* getSnapshotTags that copies the Velero tag keys as they are
getSnapshotTags_KeepSlashes(veleroTags, snapsTags, diskTags) ==
    IF diskTags.nil /\ DOMAIN veleroTags = {} /\ DOMAIN snapsTags = {} THEN {NilTags}
    ELSE { TagsOf([k \in DOMAIN diskTags.map \cup DOMAIN veleroTags \cup DOMAIN snapsTags |->
                     IF k \in DOMAIN snapsTags THEN snapsTags[k]
                     ELSE IF k \in DOMAIN veleroTags THEN veleroTags[k]
                     ELSE diskTags.map[k]]) }

\* the tag maps getSnapshotTags may return
getSnapshotTags(veleroTags, snapsTags, diskTags) ==
    IF diskTags.nil /\ DOMAIN veleroTags = {} /\ DOMAIN snapsTags = {} THEN {NilTags}
    ELSE LET keys == {ReplaceSlashes(k) : k \in DOMAIN veleroTags}
             written(key) == {veleroTags[k] : k \in {x \in DOMAIN veleroTags :
                                                          ReplaceSlashes(x) = key}}
             last == {f \in [keys -> {veleroTags[k] : k \in DOMAIN veleroTags}] :
                          \A key \in keys : f[key] \in written(key)}
         IN  { TagsOf([k \in DOMAIN diskTags.map \cup keys \cup DOMAIN snapsTags |->
                          IF k \in DOMAIN snapsTags THEN snapsTags[k]
                          ELSE IF k \in keys THEN f[k]
                          ELSE diskTags.map[k]]) : f \in last }

(***************************************************************************)
(* The requests of the snapshotter to the Azure compute resource provider. *)
(* A request takes the service some time (a latency, in seconds) and gets  *)
(* the answer the provider's state calls for, or a failure of the service. *)
(* Under a context with a deadline the request ends when the deadline      *)
(* passes; under context.TODO() it ends when the service answers.          *)
(***************************************************************************)
Replies ==
    { [latency |-> 1, fault |-> ""],
      [latency |-> 1000, fault |-> ""],
      [latency |-> 1, fault |-> "InternalServerError"] }

\* context.TODO() and context.WithTimeout(context.Background(), d)
TODO == [bounded |-> FALSE, left |-> 0]
WithTimeout(d) == [bounded |-> TRUE, left |-> IF d > 0 THEN d ELSE 0]

\* one request: the call as it is logged, its error and the context afterwards
Send(op, ctx, latency, answer) ==
    IF ctx.bounded /\ latency >= ctx.left
    THEN [call |-> [op |-> op, ctx |-> "WithTimeout", waited |-> ctx.left,
                    err |-> "context deadline exceeded"],
          err |-> "context deadline exceeded",
          ctx |-> [ctx EXCEPT !.left = 0]]
    ELSE [call |-> [op |-> op, ctx |-> IF ctx.bounded THEN "WithTimeout" ELSE "TODO",
                    waited |-> latency, err |-> answer],
          err |-> answer,
          ctx |-> IF ctx.bounded THEN [ctx EXCEPT !.left = ctx.left - latency] ELSE ctx]

\* the answer to a Get of the resource key in resources: 404 when it is not there
GetAnswer(resources, key, fault) ==
    IF fault # "" THEN fault ELSE IF key \in DOMAIN resources THEN "" ELSE "NotFound"

\* the UUID uuid.NewV4 returns when it does not fail; no operation draws more than one
UUIDs ==
    { <<"6", "b", "a", "7", "b", "8", "1", "0", "-", "9", "d", "a",
      "d", "-", "4", "1", "d", "1", "-", "8", "0", "b", "4", "-",
      "0", "0", "c", "0", "4", "f", "d", "4", "3", "0", "c", "8">> }

restorePrefix == <<"r", "e", "s", "t", "o", "r", "e", "-">>

(***************************************************************************)
(* volume_snapshotter.go: CreateSnapshot, CreateVolumeFromSnapshot,        *)
(* GetVolumeInfo and DeleteSnapshot                                        *)
(***************************************************************************)
SnapshotterInited == snap.disks # NoArmClient

\* a name that keeps the whole volume ID, whatever its length
snapshotNameOf_NoTruncate(volumeID, suffix) == volumeID \o suffix

\* snapshot names must be <= 80 characters long
snapshotNameOf(volumeID, suffix) ==
    IF Len(volumeID) <= 80 - Len(suffix) THEN volumeID \o suffix
    ELSE SubSeq(volumeID, 1, 80 - Len(suffix)) \o suffix

CreateSnapshot(volumeID, volumeAZ, tags) ==
    /\ Idle
    /\ IF ~SnapshotterInited
       THEN /\ ret' = Panic("CreateSnapshot") /\ calls' = <<>> /\ compute' = compute
       ELSE \E r1 \in Replies :
            LET disksGroup == Chars(snap.disksResourceGroup)
                snapsGroup == Chars(snap.snapsResourceGroup)
                get   == Send("Disks.Get", TODO, r1.latency,
                              GetAnswer(compute.disks, <<disksGroup, volumeID>>, r1.fault))
                diskInfo == compute.disks[<<disksGroup, volumeID>>]
                fullDiskName == getComputeResourceName(Chars(snap.disksSubscription),
                                                       disksGroup, disksResource, volumeID)
                ctx   == WithTimeout(snap.apiTimeout)
                result(e, id) == [op |-> "CreateSnapshot", volumeID |-> volumeID,
                                  tags |-> tags, err |-> e, snapshotID |-> id]
            IN  IF get.err # "" THEN
                    /\ calls' = <<get.call>> /\ compute' = compute
                    /\ ret' = result(get.err, <<>>)
                ELSE \E uid \in UUIDs \cup {<<>>} :
                IF uid = <<>> THEN
                    /\ calls' = <<get.call>> /\ compute' = compute
                    /\ ret' = result("uuid.NewV4 failed", <<>>)
                ELSE \E r2 \in Replies :
                LET begin == Send("Snapshots.BeginCreateOrUpdate", ctx, r2.latency, r2.fault)
                    snapshotName == snapshotNameOf(volumeID, <<"-">> \o uid)
                IN
                IF begin.err # "" THEN
                    /\ calls' = <<get.call, begin.call>> /\ compute' = compute
                    /\ ret' = result(begin.err, <<>>)
                ELSE \E r3 \in Replies :
                LET poll == Send("PollUntilDone", begin.ctx, r3.latency, r3.fault) IN
                IF poll.err # "" THEN
                    /\ calls' = <<get.call, begin.call, poll.call>> /\ compute' = compute
                    /\ ret' = result(poll.err, <<>>)
                ELSE \E snapshotTags \in getSnapshotTags(tags, snap.snapsTags, diskInfo.Tags) :
                    /\ calls' = <<get.call, begin.call, poll.call>>
                    /\ compute' = [compute EXCEPT !.snapshots =
                           Put(compute.snapshots, <<snapsGroup, snapshotName>>,
                               [Location |-> diskInfo.Location, Tags |-> snapshotTags,
                                Incremental |-> snap.snapsIncremental,
                                SourceResourceID |-> fullDiskName])]
                    /\ ret' = result("", getComputeResourceName(Chars(snap.snapsSubscription),
                                         snapsGroup, snapshotsResource, snapshotName))
    /\ UNCHANGED <<clouds, inits, env, store, snap, blob, put, list>>

\* strings.Split(s, "-"): the texts between the dashes of s, in order
RECURSIVE Split(_)
Split(s) ==
    IF \A i \in 1 .. Len(s) : s[i] # "-" THEN <<s>>
    ELSE LET i == CHOOSE k \in 1 .. Len(s) : s[k] = "-" /\ \A j \in 1 .. k - 1 : s[j] # "-"
         IN  <<SubSeq(s, 1, i - 1)>> \o Split(SubSeq(s, i + 1, Len(s)))

DiskStorageAccountTypesPremiumZRS == "Premium_ZRS"
DiskStorageAccountTypesStandardSSDZRS == "StandardSSD_ZRS"

\* the zones of the disk CreateVolumeFromSnapshot asks for, treating no type as zone redundant
zonesOf_AlwaysPinned(diskStorageAccountType, volumeAZ) ==
    LET regionParts == Split(volumeAZ)
    IN  IF Len(regionParts) >= 2 THEN <<regionParts[Len(regionParts)]>> ELSE <<>>

\* the zones of the disk CreateVolumeFromSnapshot asks for
zonesOf(diskStorageAccountType, volumeAZ) ==
    IF /\ diskStorageAccountType # DiskStorageAccountTypesPremiumZRS
       /\ diskStorageAccountType # DiskStorageAccountTypesStandardSSDZRS
    THEN LET regionParts == Split(volumeAZ)
         IN  IF Len(regionParts) >= 2 THEN <<regionParts[Len(regionParts)]>> ELSE <<>>
    ELSE <<>>

CreateVolumeFromSnapshot(snapshotID, volumeType, volumeAZ) ==
    /\ Idle
    /\ LET snapshotIdentifier == parseFullSnapshotName(snapshotID)
           result(e, id) == [op |-> "CreateVolumeFromSnapshot", snapshotID |-> snapshotID,
                             volumeType |-> volumeType, volumeAZ |-> volumeAZ,
                             err |-> e, volumeID |-> id]
       IN  IF snapshotIdentifier.err # "" THEN
               /\ ret' = result(snapshotIdentifier.err, <<>>)
               /\ calls' = <<>> /\ compute' = compute
           ELSE IF ~SnapshotterInited THEN
               /\ ret' = Panic("CreateVolumeFromSnapshot")
               /\ calls' = <<>> /\ compute' = compute
           ELSE \E r1 \in Replies :
               LET key   == <<snapshotIdentifier.resourceGroup, snapshotIdentifier.name>>
                   get   == Send("Snapshots.Get", TODO, r1.latency, GetAnswer(compute.snapshots, key, r1.fault))
                   snapshotInfo == compute.snapshots[key]
                   ctx   == WithTimeout(snap.apiTimeout)
               IN  IF get.err # "" THEN
                       /\ calls' = <<get.call>> /\ compute' = compute
                       /\ ret' = result(get.err, <<>>)
                   ELSE \E uid \in UUIDs \cup {<<>>} :
                   IF uid = <<>> THEN
                       /\ calls' = <<get.call>> /\ compute' = compute
                       /\ ret' = result("uuid.NewV4 failed", <<>>)
                   ELSE \E r2 \in Replies :
                   LET diskName == restorePrefix \o uid
                       disk  == [Location |-> snapshotInfo.Location,
                                 SourceResourceID |-> snapshotIdentifierString(snapshotIdentifier),
                                 SKU |-> volumeType,
                                 Tags |-> snapshotInfo.Tags,
                                 Zones |-> zonesOf(volumeType, volumeAZ)]
                       begin == Send("Disks.BeginCreateOrUpdate", ctx, r2.latency, r2.fault)
                       diskKey == <<Chars(snap.disksResourceGroup), diskName>>
                   IN
                   IF begin.err # "" THEN
                       /\ calls' = <<get.call, begin.call>> /\ compute' = compute
                       /\ ret' = result(begin.err, <<>>)
                   ELSE \E r3 \in Replies :
                   LET poll == Send("PollUntilDone", begin.ctx, r3.latency, r3.fault) IN
                   IF poll.err # "" THEN
                       /\ calls' = <<get.call, begin.call, poll.call>> /\ compute' = compute
                       /\ ret' = result(poll.err, <<>>)
                   ELSE
                       /\ calls' = <<get.call, begin.call, poll.call>>
                       /\ compute' = [compute EXCEPT !.disks = Put(compute.disks, diskKey, disk)]
                       /\ ret' = result("", diskName)
    /\ UNCHANGED <<clouds, inits, env, store, snap, blob, put, list>>

GetVolumeInfo(volumeID, volumeAZ) ==
    /\ Idle
    /\ IF ~SnapshotterInited
       THEN ret' = Panic("GetVolumeInfo") /\ calls' = <<>>
       ELSE \E r1 \in Replies :
            LET key == <<Chars(snap.disksResourceGroup), volumeID>>
                get == Send("Disks.Get", TODO, r1.latency, GetAnswer(compute.disks, key, r1.fault))
                result(e, type) == [op |-> "GetVolumeInfo", volumeID |-> volumeID,
                                    err |-> e, volumeType |-> type]
            IN  /\ calls' = <<get.call>>
                /\ ret' = IF get.err # "" THEN result(get.err, "")
                          ELSE IF compute.disks[key].SKU = "nil"
                               THEN result("disk has a nil SKU", "")
                               ELSE result("", compute.disks[key].SKU)
    /\ UNCHANGED <<clouds, inits, compute, env, store, snap, blob, put, list>>

\* DeleteSnapshot that asks for the deletion whatever the lookup answered
DeleteSnapshot_NoLookup(snapshotID) ==
    /\ Idle
    /\ LET snapshotInfo == parseFullSnapshotName(snapshotID)
           result(e) == [op |-> "DeleteSnapshot", snapshotID |-> snapshotID, err |-> e]
       IN  IF snapshotInfo.err # "" THEN
               /\ ret' = result(snapshotInfo.err) /\ calls' = <<>> /\ compute' = compute
           ELSE IF ~SnapshotterInited THEN
               /\ ret' = Panic("DeleteSnapshot") /\ calls' = <<>> /\ compute' = compute
           ELSE \E r1 \in Replies :
               LET key   == <<snapshotInfo.resourceGroup, snapshotInfo.name>>
                   ctx   == WithTimeout(snap.apiTimeout)
                   get   == Send("Snapshots.Get", ctx, r1.latency, GetAnswer(compute.snapshots, key, r1.fault))
               IN  \E r2 \in Replies :
                   LET begin == Send("Snapshots.BeginDelete", get.ctx, r2.latency, r2.fault) IN
                   IF begin.err # "" THEN
                       /\ calls' = <<get.call, begin.call>> /\ compute' = compute
                       /\ ret' = result(begin.err)
                   ELSE \E r3 \in Replies :
                   LET poll == Send("PollUntilDone", begin.ctx, r3.latency, r3.fault) IN
                   IF poll.err # "" THEN
                       /\ calls' = <<get.call, begin.call, poll.call>> /\ compute' = compute
                       /\ ret' = result(poll.err)
                   ELSE
                       /\ calls' = <<get.call, begin.call, poll.call>>
                       /\ compute' = [compute EXCEPT !.snapshots =
                              [k \in DOMAIN compute.snapshots \ {key} |-> compute.snapshots[k]]]
                       /\ ret' = result("")
    /\ UNCHANGED <<clouds, inits, env, store, snap, blob, put, list>>

\* a test that takes every failed lookup for a missing snapshot
isNotFound_AnyError(err) == err # ""

\* err.(*azcore.ResponseError) with StatusCode == http.StatusNotFound
isNotFound(err) == err = "NotFound"

DeleteSnapshot(snapshotID) ==
    /\ Idle
    /\ LET snapshotInfo == parseFullSnapshotName(snapshotID)
           result(e) == [op |-> "DeleteSnapshot", snapshotID |-> snapshotID, err |-> e]
       IN  IF snapshotInfo.err # "" THEN
               /\ ret' = result(snapshotInfo.err) /\ calls' = <<>> /\ compute' = compute
           ELSE IF ~SnapshotterInited THEN
               /\ ret' = Panic("DeleteSnapshot") /\ calls' = <<>> /\ compute' = compute
           ELSE \E r1 \in Replies :
               LET key   == <<snapshotInfo.resourceGroup, snapshotInfo.name>>
                   ctx   == WithTimeout(snap.apiTimeout)
                   get   == Send("Snapshots.Get", ctx, r1.latency, GetAnswer(compute.snapshots, key, r1.fault))
               IN  IF isNotFound(get.err) THEN
                       /\ calls' = <<get.call>> /\ compute' = compute
                       /\ ret' = result("")
                   ELSE \E r2 \in Replies :
                   LET begin == Send("Snapshots.BeginDelete", get.ctx, r2.latency, r2.fault) IN
                   IF begin.err # "" THEN
                       /\ calls' = <<get.call, begin.call>> /\ compute' = compute
                       /\ ret' = result(begin.err)
                   ELSE \E r3 \in Replies :
                   LET poll == Send("PollUntilDone", begin.ctx, r3.latency, r3.fault) IN
                   IF poll.err # "" THEN
                       /\ calls' = <<get.call, begin.call, poll.call>> /\ compute' = compute
                       /\ ret' = result(poll.err)
                   ELSE
                       /\ calls' = <<get.call, begin.call, poll.call>>
                       /\ compute' = [compute EXCEPT !.snapshots =
                              [k \in DOMAIN compute.snapshots \ {key} |-> compute.snapshots[k]]]
                       /\ ret' = result("")
    /\ UNCHANGED <<clouds, inits, env, store, snap, blob, put, list>>


(***************************************************************************)
(* volume_snapshotter.go: GetVolumeID and SetVolumeID.  An unstructured    *)
(* PersistentVolume is the map from the paths of its fields to their       *)
(* values; the converter leaves out the sources that are nil and fails on  *)
(* a source that is not an object.                                         *)
(***************************************************************************)
csiDriverPath == "spec.csi.driver"
csiVolumeHandlePath == "spec.csi.volumeHandle"
azureDiskNamePath == "spec.azureDisk.diskName"
azureDiskURIPath == "spec.azureDisk.diskURI"

\* runtime.DefaultUnstructuredConverter.FromUnstructured into a v1.PersistentVolume
FromUnstructured(u) ==
    IF "spec.csi" \in DOMAIN u \/ "spec.azureDisk" \in DOMAIN u
    THEN [err |-> "cannot restore struct from: string",
          CSI |-> [nil |-> TRUE, Driver |-> "", VolumeHandle |-> <<>>],
          AzureDisk |-> [nil |-> TRUE, DiskName |-> <<>>, DataDiskURI |-> <<>>]]
    ELSE [err |-> "",
          CSI |-> [nil |-> {csiDriverPath, csiVolumeHandlePath} \cap DOMAIN u = {},
                   Driver |-> IF csiDriverPath \in DOMAIN u THEN u[csiDriverPath] ELSE "",
                   VolumeHandle |-> IF csiVolumeHandlePath \in DOMAIN u
                                    THEN u[csiVolumeHandlePath] ELSE <<>>],
          AzureDisk |-> [nil |-> {azureDiskNamePath, azureDiskURIPath} \cap DOMAIN u = {},
                         DiskName |-> IF azureDiskNamePath \in DOMAIN u
                                      THEN u[azureDiskNamePath] ELSE <<>>,
                         DataDiskURI |-> IF azureDiskURIPath \in DOMAIN u
                                         THEN u[azureDiskURIPath] ELSE <<>>]]

\* runtime.DefaultUnstructuredConverter.ToUnstructured
ToUnstructured(pv) ==
    [p \in (IF pv.CSI.nil THEN {} ELSE {csiDriverPath, csiVolumeHandlePath})
           \cup (IF pv.AzureDisk.nil THEN {} ELSE {azureDiskNamePath, azureDiskURIPath}) |->
        CASE p = csiDriverPath -> pv.CSI.Driver
          [] p = csiVolumeHandlePath -> pv.CSI.VolumeHandle
          [] p = azureDiskNamePath -> pv.AzureDisk.DiskName
          [] p = azureDiskURIPath -> pv.AzureDisk.DataDiskURI]

\* the volume ID and error GetVolumeID returns, taking the whole handle for the ID
volumeIDOf_WholeHandle(unstructuredPV) ==
    LET pv == FromUnstructured(unstructuredPV)
    IN  IF pv.err # "" THEN [err |-> pv.err, volumeID |-> <<>>]
        ELSE IF ~pv.CSI.nil /\ pv.CSI.Driver = diskCSIDriver
        THEN [err |-> "", volumeID |-> pv.CSI.VolumeHandle]
        ELSE IF pv.AzureDisk.nil THEN [err |-> "", volumeID |-> <<>>]
        ELSE IF pv.AzureDisk.DiskName = <<>>
        THEN [err |-> "spec.azureDisk.diskName not found", volumeID |-> <<>>]
        ELSE [err |-> "", volumeID |-> pv.AzureDisk.DiskName]

\* the volume ID and error GetVolumeID returns
volumeIDOf(unstructuredPV) ==
    LET pv == FromUnstructured(unstructuredPV)
    IN  IF pv.err # "" THEN [err |-> pv.err, volumeID |-> <<>>]
        ELSE IF ~pv.CSI.nil /\ pv.CSI.Driver = diskCSIDriver
        THEN [err |-> "",
              volumeID |-> TrimPrefix(FindDiskURI(pv.CSI.VolumeHandle), diskURIPrefix)]
        ELSE IF pv.AzureDisk.nil THEN [err |-> "", volumeID |-> <<>>]
        ELSE IF pv.AzureDisk.DiskName = <<>>
        THEN [err |-> "spec.azureDisk.diskName not found", volumeID |-> <<>>]
        ELSE [err |-> "", volumeID |-> pv.AzureDisk.DiskName]

GetVolumeID(unstructuredPV) ==
    /\ Idle
    /\ ret' = [op |-> "GetVolumeID", pv |-> unstructuredPV,
               err |-> volumeIDOf(unstructuredPV).err,
               volumeID |-> volumeIDOf(unstructuredPV).volumeID]
    /\ calls' = <<>>
    /\ UNCHANGED <<clouds, inits, compute, env, store, snap, blob, put, list>>

SetVolumeID(unstructuredPV, volumeID) ==
    LET pv  == FromUnstructured(unstructuredPV)
        uri == getComputeResourceName(Chars(snap.disksSubscription),
                                      Chars(snap.disksResourceGroup), disksResource, volumeID)
        result(e, res) == [op |-> "SetVolumeID", pv |-> unstructuredPV, volumeID |-> volumeID,
                           err |-> e, res |-> res]
    IN  /\ Idle
        /\ ret' = IF pv.err # "" THEN result(pv.err, EmptyMap)
                  ELSE IF ~pv.CSI.nil THEN
                      IF pv.CSI.Driver = diskCSIDriver
                      THEN result("", ToUnstructured([pv EXCEPT !.CSI.VolumeHandle = uri]))
                      ELSE result("unable to handle CSI driver", EmptyMap)
                  ELSE IF ~pv.AzureDisk.nil
                  THEN result("", ToUnstructured([pv EXCEPT !.AzureDisk.DiskName = volumeID,
                                                            !.AzureDisk.DataDiskURI = uri]))
                  ELSE result("spec.csi and spec.azureDisk not found", EmptyMap)
        /\ calls' = <<>>
        /\ UNCHANGED <<clouds, inits, compute, env, store, snap, blob, put, list>>

(***************************************************************************)
(* Specification of the volume snapshotter: velero calls Init and then the *)
(* operations, one after the other, against a resource provider that      *)
(* holds two disks of the cluster's resource group.                        *)
(***************************************************************************)
SnapConfigs ==
    { EmptyMap,
      (apiTimeoutConfigKey :> "5m") @@ (snapsIncrementalConfigKey :> "true")
          @@ (snapsTagsConfigKey :> "team=a"),
      (apiTimeoutConfigKey :> "soon") }

Disk1 == <<"d", "1">>
Disk2 == <<"d", "2">>
Disk3 == <<"d", "3">>
teamKey == <<"t", "e", "a", "m">>
appKey == <<"a", "p", "p">>
backupKey == <<"v", "e", "l", "e", "r", "o", ".", "i", "o", "/", "b", "a", "c", "k", "u", "p">>
backupKeyDashed == <<"v", "e", "l", "e", "r", "o", ".", "i", "o", "-", "b", "a", "c", "k", "u", "p">>

InitialDisks ==
    (<<Chars("rg-cloud"), Disk1>> :>
        [Location |-> "eastus", SourceResourceID |-> <<>>, SKU |-> "Premium_LRS",
         Tags |-> TagsOf((teamKey :> "disk") @@ (appKey :> "db")), Zones |-> <<>>])
 @@ (<<Chars("rg-cloud"), Disk2>> :>
        [Location |-> "westus", SourceResourceID |-> <<>>, SKU |-> "nil",
         Tags |-> NilTags, Zones |-> <<>>])

DiskNames == {Disk1, Disk2, Disk3}

\* the disks velero asks a snapshot of, with the tags it hands to CreateSnapshot
SnapshotRequests ==
    { <<Disk1, EmptyMap>>,
      <<Disk1, (backupKey :> "b1") @@ (backupKeyDashed :> "b0") @@ (teamKey :> "velero")>>,
      <<Disk2, EmptyMap>>,
      <<Disk3, EmptyMap>> }

\* the volume types and availability zones velero restores a volume with
RestoreRequests ==
    { <<"Premium_LRS", <<"e", "a", "s", "t", "u", "s">>>>,
      <<"Premium_LRS", <<"u", "s", "-", "e", "a", "s", "t", "-", "2">>>>,
      <<"Premium_LRS", <<"e", "a", "s", "t", "u", "s", "-">>>>,
      <<"Premium_ZRS", <<"u", "s", "-", "e", "a", "s", "t", "-", "2">>>>,
      <<"StandardSSD_ZRS", <<"u", "s", "-", "e", "a", "s", "t", "-", "2">>>> }

\* snapshot IDs velero may hold: of the snapshots there are, of the last
\* operation, one that was never created and one that is not a snapshot URI
SnapshotIDs ==
    { getComputeResourceName(Chars(snap.snapsSubscription), k[1], snapshotsResource, k[2]) :
          k \in DOMAIN compute.snapshots }
    \cup (IF ret.op \in {"CreateSnapshot", "DeleteSnapshot"} /\ ret.err = ""
          THEN {ret.snapshotID} \ {<<>>} ELSE {})
    \cup { getComputeResourceName(Chars("sub-cloud"), Chars("rg-cloud"), snapshotsResource, Disk3),
           Disk1 }

VolumeIDs == { Disk1, <<>>, <<"d", "\n", "1">>, <<"d", "/", "1">> }

PersistentVolumes ==
    { (csiDriverPath :> diskCSIDriver) @@ (csiVolumeHandlePath :> <<>>),
      (csiDriverPath :> "file.csi.azure.com") @@ (csiVolumeHandlePath :> Disk1),
      (azureDiskNamePath :> Disk2) @@ (azureDiskURIPath :> <<>>),
      (azureDiskNamePath :> <<>>) @@ (azureDiskURIPath :> <<>>),
      EmptyMap,
      ("spec.csi" :> "disk") }

InitSnap ==
    /\ env = (credentialsFileEnvVar :> CloudCredentialsFile)
    /\ store = NewObjectStore /\ snap = NewVolumeSnapshotter
    /\ blob = NoBlob /\ calls = <<>> /\ put = NoPut /\ list = NoList
    /\ ret = NoRet
    /\ compute = [disks |-> InitialDisks, snapshots |-> <<>>]
    /\ inits = NoInits /\ clouds = BuiltinClouds

NextSnap ==
    \/ \E config \in SnapConfigs : VolumeSnapshotterInit(config)
    \/ \E req \in SnapshotRequests : CreateSnapshot(req[1], <<>>, req[2])
    \/ \E volumeID \in DiskNames : GetVolumeInfo(volumeID, <<>>)
    \/ \E snapshotID \in SnapshotIDs : DeleteSnapshot(snapshotID)

SpecSnap == InitSnap /\ [][NextSnap]_vars

\* velero restores volumes from a snapshot an earlier backup took of Disk1
Snapshot1 == <<Chars("rg-cloud"), snapshotNameOf(Disk1, <<"-">> \o CHOOSE uid \in UUIDs : TRUE)>>

InitRestore ==
    /\ env = (credentialsFileEnvVar :> CloudCredentialsFile)
    /\ store = NewObjectStore /\ snap = NewVolumeSnapshotter
    /\ blob = NoBlob /\ calls = <<>> /\ put = NoPut /\ list = NoList
    /\ ret = NoRet
    /\ compute = [disks |-> InitialDisks,
                  snapshots |-> (Snapshot1 :>
                      [Location |-> "eastus", Tags |-> InitialDisks[<<Chars("rg-cloud"), Disk1>>].Tags,
                       Incremental |-> "nil",
                       SourceResourceID |-> getComputeResourceName(Chars("sub-cloud"),
                                                Chars("rg-cloud"), disksResource, Disk1)])]
    /\ inits = NoInits /\ clouds = BuiltinClouds

NextRestore ==
    \/ \E config \in SnapConfigs : VolumeSnapshotterInit(config)
    \/ \E snapshotID \in SnapshotIDs, req \in RestoreRequests :
           CreateVolumeFromSnapshot(snapshotID, req[1], req[2])

SpecRestore == InitRestore /\ [][NextRestore]_vars

\* velero reads and rewrites the volume IDs of persistent volumes
NextVolumeID ==
    \/ \E config \in SnapConfigs : VolumeSnapshotterInit(config)
    \/ \E pv \in PersistentVolumes \cup (IF ret.op = "SetVolumeID" /\ ret.err = ""
                                           THEN {ret.res} ELSE {}) : GetVolumeID(pv)
    \/ \E pv \in PersistentVolumes, volumeID \in VolumeIDs : SetVolumeID(pv, volumeID)

SpecVolumeID == InitSnap /\ [][NextVolumeID]_vars


(***************************************************************************)
(* C13: every Azure API request that CreateSnapshot,                       *)
(* CreateVolumeFromSnapshot, DeleteSnapshot and GetVolumeInfo make is      *)
(* bounded by the configured apiTimeout (2 minutes when it is not set): no *)
(* request of these operations waits longer than apiTimeout.  The lookups  *)
(* of CreateSnapshot, CreateVolumeFromSnapshot and GetVolumeInfo are sent  *)
(* under context.TODO() and wait for as long as the service takes.         *)
(***************************************************************************)
C13_AsStated ==
    ret.op \in {"CreateSnapshot", "CreateVolumeFromSnapshot", "DeleteSnapshot", "GetVolumeInfo"}
        => \A i \in DOMAIN calls : calls[i].waited <= snap.apiTimeout


(***************************************************************************)
(* C15: the tags of a snapshot created by CreateSnapshot are the source    *)
(* disk's tags, overridden by the tags velero assigned (every "/" of a tag *)
(* key replaced by "-"), overridden in turn by the tags of the volume      *)
(* snapshot location; the tag map is nil only when the disk has no tag map *)
(* and both other tag sets are empty.                                      *)
(***************************************************************************)
SnapshotCreated == ret.op = "CreateSnapshot" /\ ret.err = ""

\* the snapshot the last CreateSnapshot created, as the provider holds it
CreatedSnapshot ==
    LET id == parseFullSnapshotName(ret.snapshotID)
    IN  compute.snapshots[<<id.resourceGroup, id.name>>]

\* key is k with every "/" replaced by "-"
Dashed(k, key) ==
    /\ Len(key) = Len(k)
    /\ \A i \in 1 .. Len(k) : key[i] = IF k[i] = "/" THEN "-" ELSE k[i]

C15_SnapshotTags ==
    SnapshotCreated =>
        LET tags   == CreatedSnapshot.Tags
            disk   == compute.disks[<<Chars(snap.disksResourceGroup), ret.volumeID>>].Tags
            velero == ret.tags
            config == snap.snapsTags
            from(key) == {k \in DOMAIN velero : Dashed(k, key)}
        IN  /\ tags.nil <=> (disk.nil /\ DOMAIN velero = {} /\ DOMAIN config = {})
            /\ \A k \in DOMAIN velero : \E key \in DOMAIN tags.map : Dashed(k, key)
            /\ DOMAIN disk.map \cup DOMAIN config \subseteq DOMAIN tags.map
            /\ \A key \in DOMAIN tags.map :
                   IF key \in DOMAIN config THEN tags.map[key] = config[key]
                   ELSE IF from(key) # {} THEN \E k \in from(key) : tags.map[key] = velero[k]
                   ELSE key \in DOMAIN disk.map /\ tags.map[key] = disk.map[key]

\* a snapshot of a tagged disk whose tags velero and the location both override
C15_Witness ==
    /\ SnapshotCreated
    /\ ret.volumeID = Disk1 /\ backupKey \in DOMAIN ret.tags /\ teamKey \in DOMAIN snap.snapsTags
    /\ CreatedSnapshot.Tags.map[teamKey] = "a"
    /\ CreatedSnapshot.Tags.map[backupKeyDashed] = "b1"
    /\ CreatedSnapshot.Tags.map[appKey] = "db"
    /\ backupKey \notin DOMAIN CreatedSnapshot.Tags.map

\* a snapshot without a tag map
C15_WitnessNil == SnapshotCreated /\ CreatedSnapshot.Tags.nil


(***************************************************************************)
(* C17: CreateVolumeFromSnapshot pins the restored disk to a zone only for *)
(* volume types that are not zone redundant: for Premium_ZRS and           *)
(* StandardSSD_ZRS no zone is set; for every other volume type the zone is *)
(* the text after the last "-" of volumeAZ when volumeAZ contains a "-",   *)
(* and no zone is set otherwise.                                           *)
(***************************************************************************)
VolumeRestored == ret.op = "CreateVolumeFromSnapshot" /\ ret.err = ""

\* the disk the last CreateVolumeFromSnapshot created, as the provider holds it
RestoredDisk == compute.disks[<<Chars(snap.disksResourceGroup), ret.volumeID>>]

AfterLastDash(az) ==
    LET last == Max(Positions(az, "-")) IN SubSeq(az, last + 1, Len(az))

C17_Zones ==
    VolumeRestored =>
        IF ret.volumeType \in {"Premium_ZRS", "StandardSSD_ZRS"} THEN RestoredDisk.Zones = <<>>
        ELSE IF Positions(ret.volumeAZ, "-") # {}
             THEN RestoredDisk.Zones = <<AfterLastDash(ret.volumeAZ)>>
             ELSE RestoredDisk.Zones = <<>>

\* a locally redundant disk restored into zone 2 of us-east
C17_Witness ==
    /\ VolumeRestored
    /\ ret.volumeType = "Premium_LRS"
    /\ ret.volumeAZ = <<"u", "s", "-", "e", "a", "s", "t", "-", "2">>
    /\ RestoredDisk.Zones = <<<<"2">>>>

\* a zone redundant disk restored without a zone although volumeAZ names one
C17_WitnessZRS ==
    /\ VolumeRestored
    /\ ret.volumeType = "StandardSSD_ZRS"
    /\ Positions(ret.volumeAZ, "-") # {}
    /\ RestoredDisk.Zones = <<>>


(***************************************************************************)
(* C18: for a PersistentVolume backed by the CSI driver disk.csi.azure.com *)
(* or by an in-tree azureDisk source, GetVolumeID applied to the result of *)
(* SetVolumeID(pv, id) returns id, for every non-empty id.                 *)
(* diskURIRegexp ends in .*$ and the dot matches no line feed, so the      *)
(* volume handle of an id with a line feed is not matched and GetVolumeID  *)
(* returns the empty text; the property holds for the ids without one.     *)
(***************************************************************************)
\* GetVolumeID is applied to the persistent volume the preceding SetVolumeID returned
RoundTrip ==
    /\ ret.op = "SetVolumeID" /\ ret.err = "" /\ ret.volumeID # <<>>
    /\ ret'.op = "GetVolumeID" /\ ret'.pv = ret.res

C18_AsStated == [][RoundTrip => ret'.err = "" /\ ret'.volumeID = ret.volumeID]_vars

C18_RoundTrip ==
    [][RoundTrip /\ Positions(ret.volumeID, "\n") = {}
           => ret'.err = "" /\ ret'.volumeID = ret.volumeID]_vars

\* GetVolumeID has read Disk1 from the handle SetVolumeID wrote for it
C18_Witness ==
    /\ SnapshotterInited
    /\ ret.op = "GetVolumeID" /\ ret.err = "" /\ ret.volumeID = Disk1
    /\ csiVolumeHandlePath \in DOMAIN ret.pv
    /\ ret.pv[csiDriverPath] = diskCSIDriver
    /\ ret.pv[csiVolumeHandlePath] =
           getComputeResourceName(Chars(snap.disksSubscription), Chars(snap.disksResourceGroup),
                                  disksResource, Disk1)

\* GetVolumeID has read the name SetVolumeID wrote into an in-tree azureDisk source
C18_WitnessAzureDisk ==
    /\ ret.op = "GetVolumeID" /\ ret.err = "" /\ ret.volumeID = <<"d", "\n", "1">>
    /\ azureDiskNamePath \in DOMAIN ret.pv
    /\ ret.pv[azureDiskNamePath] = <<"d", "\n", "1">>


(***************************************************************************)
(* C19: DeleteSnapshot of a snapshot that does not exist (the lookup       *)
(* answers 404 Not Found) returns nil and sends no delete request, so      *)
(* deleting the same snapshot twice in a row succeeds both times.          *)
(***************************************************************************)
\* the lookup of the last DeleteSnapshot was answered 404 Not Found
LookupNotFound ==
    /\ ret.op = "DeleteSnapshot"
    /\ Len(calls) >= 1 /\ calls[1].op = "Snapshots.Get" /\ calls[1].err = "NotFound"

\* the step deletes the snapshot that the preceding DeleteSnapshot has deleted,
\* and the provider answers the lookup
DeletedAgain ==
    /\ ret.op = "DeleteSnapshot" /\ ret.err = "" /\ Len(calls) = 3
    /\ ret'.op = "DeleteSnapshot" /\ ret'.snapshotID = ret.snapshotID
    /\ Len(calls') >= 1 /\ calls'[1].err \notin {"InternalServerError", "context deadline exceeded"}

C19_DeleteMissing ==
    /\ [](LookupNotFound => ret.err = "" /\ Len(calls) = 1)
    /\ [][DeletedAgain => ret'.err = "" /\ Len(calls') = 1 /\ compute' = compute]_vars

\* a snapshot was created and deleted, and deleting it once more has returned nil
C19_Witness ==
    /\ LookupNotFound /\ ret.err = ""
    /\ parseFullSnapshotName(ret.snapshotID).name = snapshotNameOf(Disk1, <<"-">> \o CHOOSE uid \in UUIDs : TRUE)
    /\ compute.snapshots = <<>>


(***************************************************************************)
(* object_store.go: CreateSignedURL and azureBlob.GetSASURI.  The URL is   *)
(* the blob's URL with the query parameters of the shared access           *)
(* signature; times are in seconds.                                        *)
(***************************************************************************)
ProtocolHTTPS == "https"

\* sas.BlobPermissions.String
BlobPermissionsString(p) ==
    (IF p.Read THEN "r" ELSE "") \o (IF p.Add THEN "a" ELSE "") \o (IF p.Create THEN "c" ELSE "")
        \o (IF p.Write THEN "w" ELSE "") \o (IF p.Delete THEN "d" ELSE "")

ReadOnly == [Read |-> TRUE, Add |-> FALSE, Create |-> FALSE, Write |-> FALSE, Delete |-> FALSE]

\* azureBlobGetter.getBlob
getBlob(bucket, key) ==
    [container |-> bucket, blob |-> key, blobClient |-> store.blobGetter,
     serviceClient |-> store.blobGetter]

\* GetSASURI that signs with a user delegation key whatever credential it is given
GetSASURI_Delegation(b, ttl, sharedKeyCredential, now, answer) ==
    LET blobSignatureValues ==
            [ContainerName |-> b.container, BlobName |-> b.blob, Protocol |-> ProtocolHTTPS,
             StartTime |-> now - 600, ExpiryTime |-> now + ttl,
             Permissions |-> BlobPermissionsString(ReadOnly)]
        get == [op |-> "GetUserDelegationCredential", Start |-> now - 600,
                Expiry |-> now + ttl, answer |-> answer]
    IN  IF answer # "ok" THEN [err |-> answer, url |-> "", calls |-> <<get>>]
        ELSE [err |-> "",
              url |-> [blob |-> [uri |-> b.blobClient.uri, container |-> b.container,
                                 blob |-> b.blob],
                       query |-> blobSignatureValues @@ [signedWith |-> "userDelegationKey",
                                                         key |-> ""]],
              calls |-> <<get>>]

\* azureBlob.GetSASURI at the time now; answer is the service's answer to
\* GetUserDelegationCredential
GetSASURI(b, ttl, sharedKeyCredential, now, answer) ==
    LET blobSignatureValues ==
            [ContainerName |-> b.container, BlobName |-> b.blob, Protocol |-> ProtocolHTTPS,
             StartTime |-> now - 600, ExpiryTime |-> now + ttl,
             Permissions |-> BlobPermissionsString(ReadOnly)]
        get == [op |-> "GetUserDelegationCredential", Start |-> now - 600,
                Expiry |-> now + ttl, answer |-> answer]
        url(how, key) ==
            [blob |-> [uri |-> b.blobClient.uri, container |-> b.container, blob |-> b.blob],
             query |-> blobSignatureValues @@ [signedWith |-> how, key |-> key]]
    IN  IF sharedKeyCredential = NoSharedKey
        THEN IF answer # "ok" THEN [err |-> answer, url |-> "", calls |-> <<get>>]
             ELSE [err |-> "", url |-> url("userDelegationKey", ""), calls |-> <<get>>]
        ELSE [err |-> "", url |-> url("sharedKey", sharedKeyCredential.key), calls |-> <<>>]

\* what the blob service may answer to GetUserDelegationCredential
DelegationAnswers == {"ok", "AuthorizationPermissionMismatch"}

\* the times of day of the calls and the lifetimes velero asks for
Times == {1000, 5000}
TTLs == {60, 3600}

CreateSignedURL(bucket, key, ttl) ==
    /\ Idle
    /\ IF ~Inited THEN ret' = Panic("CreateSignedURL") /\ calls' = <<>>
       ELSE \E now \in Times, answer \in DelegationAnswers :
            LET r == GetSASURI(getBlob(bucket, key), ttl, store.sharedKeyCredential, now, answer)
            IN  /\ calls' = r.calls
                /\ ret' = [op |-> "CreateSignedURL", bucket |-> bucket, key |-> key,
                           ttl |-> ttl, err |-> r.err, url |-> r.url]
    /\ UNCHANGED <<clouds, inits, compute, env, store, snap, blob, put, list>>

(***************************************************************************)
(* Specification of the signed URLs: velero calls Init with the config of  *)
(* a backup storage location and asks for download URLs.                   *)
(***************************************************************************)
NextSign ==
    \/ \E config \in ObjectStoreConfigs, api \in ApiOutcomes : ObjectStoreInit(config, api)
    \/ \E ttl \in TTLs : CreateSignedURL("b", "backups/b1/velero-backup.json", ttl)

SpecSign == InitInit /\ [][NextSign]_vars

(***************************************************************************)
(* C20: CreateSignedURL signs with the storage account's shared key        *)
(* (service SAS) exactly when the object store authenticated with a        *)
(* storage account key at Init, and with a user delegation key otherwise;  *)
(* in both cases the URL grants read permission only and is restricted to  *)
(* HTTPS.                                                                  *)
(***************************************************************************)
URLSigned == ret.op = "CreateSignedURL" /\ ret.err = ""

C20_SignedURL ==
    URLSigned =>
        /\ IF store.blobGetter.auth = "sharedKey"
           THEN /\ ret.url.query.signedWith = "sharedKey"
                /\ ret.url.query.key = store.blobGetter.key
           ELSE ret.url.query.signedWith = "userDelegationKey"
        /\ ret.url.query.Permissions = "r"
        /\ ret.url.query.Protocol = "https"

\* a URL signed with the access key the object store was initialised with
C20_Witness ==
    /\ URLSigned
    /\ store.blobGetter.auth = "sharedKey" /\ store.blobGetter.key # ""
    /\ ret.url.query.signedWith = "sharedKey"

\* a URL signed with a user delegation key of an object store that uses Azure AD
C20_WitnessDelegation ==
    /\ URLSigned
    /\ store.blobGetter.auth \notin {"sharedKey", "none"}
    /\ ret.url.query.signedWith = "userDelegationKey"
    /\ calls # <<>> /\ calls[1].op = "GetUserDelegationCredential"


(***************************************************************************)
(* The snapshot name of CreateSnapshot (volume_snapshotter.go 283-294),    *)
(* for volume IDs on both sides of the length where truncation starts      *)
(***************************************************************************)
MaxVolumeIDLen == 48

\* the volume ID of n characters that counts up from k; neighbours always differ
CountingID(n, k) ==
    [i \in 1 .. n |-> <<"0", "1", "2", "3", "4", "5", "6", "7", "8", "9">>[((i + k) % 10) + 1]]

LongVolumeIDs == {CountingID(n, k) : n \in 0 .. MaxVolumeIDLen, k \in {0, 3, 7}}

\* lines 283-294 of CreateSnapshot: the suffix is drawn, then the name is chosen
SnapshotNameCall ==
    \E volumeID \in LongVolumeIDs : \E uid \in UUIDs \cup {<<>>} :
        /\ ret' = IF uid = <<>>
                  THEN [op |-> "snapshotName", volumeID |-> volumeID,
                        err |-> "uuid.NewV4 failed", uid |-> uid, name |-> <<>>]
                  ELSE [op |-> "snapshotName", volumeID |-> volumeID,
                        err |-> "", uid |-> uid,
                        name |-> snapshotNameOf(volumeID, <<"-">> \o uid)]
        /\ UNCHANGED <<clouds, inits, compute, env, store, snap, blob, calls, put, list>>

NextName == SnapshotNameCall

SpecName == InitBlockSize /\ [][NextName]_vars

NameChosen == ret.op = "snapshotName" /\ ret.err = ""

(***************************************************************************)
(* C21: for every volumeID, the snapshot name chosen by CreateSnapshot is  *)
(* at most 80 characters long and consists of volumeID truncated to at     *)
(* most 43 characters (its first 43 characters when it is longer, all of   *)
(* it otherwise), followed by "-" and a 36-character UUID.                 *)
(***************************************************************************)
C21_SnapshotName ==
    NameChosen =>
        /\ Len(ret.name) <= 80
        /\ Len(ret.uid) = 36
        /\ ret.name = Take(ret.volumeID, Min(Len(ret.volumeID), 43)) \o <<"-">> \o ret.uid

\* a name chosen for a volume ID of more than 43 characters
C21_Witness == NameChosen /\ Len(ret.volumeID) > 43 /\ Len(ret.name) = 80

\* a name chosen for a volume ID of exactly 43 characters, kept whole
C21_WitnessWhole ==
    NameChosen /\ Len(ret.volumeID) = 43 /\ Take(ret.name, 43) = ret.volumeID


(***************************************************************************)
(* C22: if any PutBlock call fails, or the body returns a read error other *)
(* than io.EOF, PutObject returns an error and never calls PutBlockList,   *)
(* so nothing is committed for that key by the failed call: no step of the *)
(* loop changes the committed content, and the step on which PutBlock or   *)
(* Read fails ends the call with an error and a call log that holds no     *)
(* PutBlockList.                                                           *)
(***************************************************************************)
NoPutBlockList(log) == \A i \in 1 .. Len(log) : log[i].op # "PutBlockList"

\* the step has sent a PutBlock that failed
PutBlockFailed == Len(calls') > Len(calls) /\ calls'[Len(calls')].err # ""

\* the step has read the body and got an error other than io.EOF
ReadFailed == (IF put'.pc = "idle" THEN ret'.read ELSE put'.read) \notin {"nil", "EOF"}

C22_FailedPut ==
    [][put.pc = "loop" =>
          /\ blob'.exists = blob.exists /\ blob'.content = blob.content
          /\ (PutBlockFailed \/ ReadFailed) =>
                 /\ put'.pc = "idle"
                 /\ ret'.op = "PutObject" /\ ret'.err \notin {"", "running"}
                 /\ NoPutBlockList(calls')]_vars

\* a PutObject that failed on its second PutBlock, over a blob committed earlier
C22_Witness ==
    /\ PutObjectReturned /\ ret.err = "error putting block"
    /\ Len(calls) = 2 /\ calls[1].err = "" /\ calls[2].err # ""
    /\ blob.exists /\ NoPutBlockList(calls)

\* a PutObject that failed on a read error that came with bytes, which were staged
C22_WitnessRead ==
    /\ PutObjectReturned /\ ret.err = "error reading block from body"
    /\ ret.read = "unexpected EOF"
    /\ calls # <<>> /\ calls[Len(calls)].op = "PutBlock" /\ NoPutBlockList(calls)


(***************************************************************************)
(* PutObject under fair scheduling.  The loop and the commit are steps of  *)
(* one goroutine whose requests all return, so each is taken once it is    *)
(* enabled; the reader of ReadAnswers answers (0, nil) at most             *)
(* MaxZeroReads times and otherwise hands out bytes, io.EOF or an error.   *)
(***************************************************************************)
SpecPutLive == SpecPut /\ WF_vars(PutObjectLoop) /\ WF_vars(PutObjectCommit)

PutObjectRunning == put.pc # "idle"

\* the step is a read of the loop that yielded zero bytes and no error
ZeroRead == put.pc = "loop" /\ put'.pc = "loop" /\ put'.zero = put.zero + 1

(***************************************************************************)
(* C23: under the assumption that the body eventually returns io.EOF or an *)
(* error and that every PutBlock and PutBlockList call returns, PutObject  *)
(* eventually returns; a read that yields zero bytes and no error stages   *)
(* no block: it sends no request and leaves the block list, the staged     *)
(* blocks and the rest of the body as they were.                           *)
(***************************************************************************)
C23_Returns ==
    /\ PutObjectRunning ~> PutObjectReturned
    /\ [][ZeroRead => /\ calls' = calls /\ blob' = blob
                      /\ put'.blockIDs = put.blockIDs /\ put'.rest = put.rest]_vars

\* a PutObject that returned nil after a read of zero bytes and no error
C23_Witness ==
    /\ PutObjectReturned /\ ret.err = ""
    /\ ret.body # <<>> /\ blob.content = ret.body
    /\ \E i \in 1 .. Len(calls) : calls[i].op = "PutBlock"
    /\ put.pc = "idle"

\* a PutObject in its loop after a read of zero bytes and no error
C23_WitnessZeroRead == put.pc = "loop" /\ put.zero > 0 /\ put.read = "nil"


(***************************************************************************)
(* C24: DeleteSnapshot sends the delete request unless the preceding       *)
(* lookup of the snapshot was answered 404 Not Found.  A lookup failure    *)
(* other than 404 is not returned to the caller: the delete request is     *)
(* sent all the same, and the caller gets what the delete request and its  *)
(* poller reported.                                                        *)
(***************************************************************************)
SnapshotLookedUp ==
    ret.op = "DeleteSnapshot" /\ calls # <<>> /\ calls[1].op = "Snapshots.Get"

DeleteSent == \E i \in 1 .. Len(calls) : calls[i].op = "Snapshots.BeginDelete"

C24_DeleteAfterLookup ==
    SnapshotLookedUp =>
        /\ DeleteSent <=> calls[1].err # "NotFound"
        /\ DeleteSent => /\ calls[2].op = "Snapshots.BeginDelete"
                         /\ ret.err = calls[Len(calls)].err

\* the delete request is sent only after a lookup that succeeded, and any other
\* lookup failure than 404 is what the caller gets, with no delete attempted
C24_AsStated ==
    SnapshotLookedUp =>
        /\ DeleteSent => calls[1].err = ""
        /\ calls[1].err \notin {"", "NotFound"} =>
               ret.err = calls[1].err /\ Len(calls) = 1

\* a snapshot deleted, with nil returned, although its lookup had failed
C24_Witness ==
    /\ SnapshotLookedUp /\ calls[1].err = "InternalServerError"
    /\ DeleteSent /\ Len(calls) = 3 /\ ret.err = ""


(***************************************************************************)
(* The snapshot ID that CreateSnapshot returns (volume_snapshotter.go 320) *)
(* handed to parseFullSnapshotName, for subscriptions, resource groups and *)
(* snapshot names with and without a '/' and a line feed                   *)
(***************************************************************************)
IDTexts ==
    { <<>>, <<"s", "-", "1">>, <<".", "*">>,
      <<"r", "e", "s", "o", "u", "r", "c", "e", "G", "r", "o", "u", "p", "s">>,
      <<"a", "\n">>, <<"a", "/", "b">>,
      <<"x">> \o snapshotURIResourceGroups \o <<"y">> }

SnapshotIDCall ==
    \E subscription \in IDTexts, resourceGroup \in IDTexts, name \in IDTexts :
        \E id \in {getComputeResourceName(subscription, resourceGroup, snapshotsResource, name)} :
            /\ ret' = [op |-> "parseFullSnapshotName",
                       subscription |-> subscription, resourceGroup |-> resourceGroup,
                       name |-> name, id |-> id, parsed |-> parseFullSnapshotName(id)]
            /\ UNCHANGED <<clouds, inits, compute, env, store, snap, blob, calls, put, list>>

NextSnapshotID == SnapshotIDCall

SpecSnapshotID == InitBlockSize /\ [][NextSnapshotID]_vars

SnapshotIDParsed == ret.op = "parseFullSnapshotName"

Has(text, c) == \E i \in 1 .. Len(text) : text[i] = c

HasIn(c) == Has(ret.subscription, c) \/ Has(ret.resourceGroup, c) \/ Has(ret.name, c)

Recovered ==
    /\ ret.parsed.err = ""
    /\ ret.parsed.subscription = ret.subscription
    /\ ret.parsed.resourceGroup = ret.resourceGroup
    /\ ret.parsed.name = ret.name

(***************************************************************************)
(* C25: every snapshot ID built by getComputeResourceName, as CreateSnapshot*)
(* returns it, is accepted by parseFullSnapshotName, which recovers        *)
(* exactly the subscription, the resource group and the snapshot name the  *)
(* ID was built from, for all subscriptions, resource groups and names     *)
(* that contain no '/' and no line feed; an ID with a line feed in any of  *)
(* the three is rejected.                                                  *)
(***************************************************************************)
C25_RoundTrip ==
    SnapshotIDParsed =>
        /\ (~HasIn("/") /\ ~HasIn("\n")) => Recovered
        /\ HasIn("\n") => ret.parsed.err # ""

\* the same for all subscriptions, resource groups and names without a '/'
C25_AsStated == (SnapshotIDParsed /\ ~HasIn("/")) => Recovered

\* an ID of three non-empty texts, one of them with the regexp's own characters
C25_Witness ==
    /\ SnapshotIDParsed /\ ~HasIn("/") /\ ~HasIn("\n") /\ Recovered
    /\ ret.subscription = <<"s", "-", "1">> /\ ret.resourceGroup = <<".", "*">>
    /\ ret.name = <<"r", "e", "s", "o", "u", "r", "c", "e", "G", "r", "o", "u", "p", "s">>

\* an ID whose resource group holds "/resourceGroups/": it is accepted, and the
\* subscription it yields is not the one it was built from
C25_WitnessSlash ==
    /\ SnapshotIDParsed /\ ret.parsed.err = ""
    /\ Has(ret.resourceGroup, "/") /\ ~Has(ret.subscription, "/")
    /\ ret.parsed.subscription # ret.subscription


(***************************************************************************)
(* Specification of the Init calls of one object store and one volume      *)
(* snapshotter, with the object store's Init of both generations: the one  *)
(* that builds its client with NewStorageClient and the one that loads the *)
(* credentials file into the process environment.                          *)
(***************************************************************************)
FrameStoreConfigs ==
    { EmptyMap,
      Account,
      Account @@ AAD,
      Account @@ Group,
      Account @@ AAD @@ File(CloudCredentialsFile) @@ ("snapshotLocation" :> "x") }

FrameSnapshotterConfigs ==
    { EmptyMap,
      File(CloudCredentialsFile),
      File(MissingCredentialsFile),
      (apiTimeoutConfigKey :> "soon") }

NextInitFrame ==
    \/ \E config \in FrameStoreConfigs, api \in ApiOutcomes : ObjectStoreInit(config, api)
    \/ \E config \in FrameStoreConfigs, api \in ApiOutcomes : ObjectStoreInitEnv(config, api)
    \/ \E config \in FrameSnapshotterConfigs : VolumeSnapshotterInit(config)

SpecInitFrame == InitInit /\ [][NextInitFrame]_vars

\* the step is an Init of the kind named that returned an error
StoreInitFailed ==
    /\ ret'.op = "ObjectStore.Init" /\ ret'.err # ""
    /\ \E api \in ApiOutcomes : ObjectStoreInit(ret'.config, api)

StoreInitEnvFailed ==
    /\ ret'.op = "ObjectStore.Init" /\ ret'.err # ""
    /\ \E api \in ApiOutcomes : ObjectStoreInitEnv(ret'.config, api)

SnapshotterInitFailed ==
    /\ ret'.op = "VolumeSnapshotter.Init" /\ ret'.err # ""
    /\ VolumeSnapshotterInit(ret'.config)

(***************************************************************************)
(* C26: when VolumeSnapshotter.Init, or the ObjectStore.Init that builds   *)
(* its client with NewStorageClient, returns an error, no field of the     *)
(* receiver has been modified.  The ObjectStore.Init that reads the        *)
(* process environment leaves containerGetter, blobGetter and blockSize as *)
(* they were when it returns an error, but has already set storageAccount  *)
(* when it fails after the check of that key, and has replaced             *)
(* sharedKeyCredential when it fails on creating the service client.       *)
(***************************************************************************)
C26_Frame ==
    [][/\ (StoreInitFailed \/ SnapshotterInitFailed) => (store' = store /\ snap' = snap)
       /\ StoreInitEnvFailed =>
              /\ snap' = snap
              /\ store'.containerGetter = store.containerGetter
              /\ store'.blobGetter = store.blobGetter
              /\ store'.blockSize = store.blockSize
              /\ store' # store =>
                     /\ ret'.err \notin {"config has invalid keys", "storageAccount not defined"}
                     /\ store'.storageAccount = ret'.config[storageAccountConfigKey]]_vars

\* every Init that returns an error leaves the object store and the snapshotter
\* as they were
C26_AsStated ==
    [][(ret'.op \in {"ObjectStore.Init", "VolumeSnapshotter.Init"} /\ ret'.err # "")
           => (store' = store /\ snap' = snap)]_vars

\* an Init of an initialised object store that returned an error and left the
\* clients of the earlier Init in place
C26_Witness ==
    /\ ret.op = "ObjectStore.Init" /\ ret.err # ""
    /\ store.blobGetter # NoClient /\ store.storageAccount = ""

\* an Init of an initialised snapshotter that returned an error
C26_WitnessSnapshotter ==
    ret.op = "VolumeSnapshotter.Init" /\ ret.err # "" /\ snap.disks # NoArmClient

\* an object store whose only Init so far failed, with storageAccount set
C26_WitnessStorageAccount ==
    /\ ret.op = "ObjectStore.Init" /\ ret.err # ""
    /\ store.blobGetter = NoClient /\ store.storageAccount # ""


(***************************************************************************)
(* Specification of the Init calls of several locations in one process:    *)
(* every location names its own credentials file, and the process starts   *)
(* with an environment that holds none of the variables the files define.  *)
(***************************************************************************)
LocationSnapshotterConfigs ==
    { File(CloudCredentialsFile),
      File(BareCredentialsFile) @@ (resourceGroupConfigKey :> "rg-snap"),
      File(KeyCredentialsFile) }

LocationStoreConfigs ==
    { Account @@ AAD @@ File(CloudCredentialsFile),
      Account @@ AAD @@ File(BareCredentialsFile),
      Account @@ AAD @@ File(KeyCredentialsFile),
      Account @@ KeyVar @@ File(KeyCredentialsFile),
      Account @@ KeyVar @@ AAD @@ File(BareCredentialsFile) }

LocationApi == [listKeys |-> "ok", getProperties |-> "ok"]

InitLocations ==
    /\ env = EmptyMap
    /\ store = NewObjectStore /\ snap = NewVolumeSnapshotter
    /\ blob = NoBlob /\ calls = <<>> /\ put = NoPut /\ list = NoList
    /\ ret = NoRet
    /\ compute = NoCompute
    /\ inits = NoInits /\ clouds = BuiltinClouds

NextLocations ==
    \/ \E config \in LocationSnapshotterConfigs : VolumeSnapshotterInit(config)
    \/ \E config \in LocationStoreConfigs : ObjectStoreInitEnv(config, LocationApi)
    \/ \E config \in LocationStoreConfigs : ObjectStoreInit(config, LocationApi)

SpecLocations == InitLocations /\ [][NextLocations]_vars

\* the environment an Init would work with if only its own credentials file had
\* been loaded into the environment the process started with
OwnEnv(config) == Overload(EmptyMap, FileSystem[config[credentialsFileConfigKey]])

\* the step is a successful Init of the volume snapshotter, or of the object store
\* that loads its credentials file into the environment
SnapshotterInitDone ==
    /\ ret'.op = "VolumeSnapshotter.Init" /\ ret'.err = ""
    /\ VolumeSnapshotterInit(ret'.config)

StoreInitEnvDone ==
    /\ ret'.op = "ObjectStore.Init" /\ ret'.err = ""
    /\ ObjectStoreInitEnv(ret'.config, LocationApi)

\* C27 as stated: the credentials and the cloud that an Init call uses are
\* determined only by that call's config and its own credentials file; values
\* that the credentials file of an earlier Init left in the environment never
\* influence a later Init whose credentials file does not define them
C27_AsStated ==
    [][/\ SnapshotterInitDone =>
              /\ snap'.disks.auth = NewDefaultAzureCredential(OwnEnv(ret'.config))
              /\ snap'.disks.cloud = cloudFromName(CloudNameOf(OwnEnv(ret'.config))).cfg
       /\ StoreInitEnvDone =>
              /\ store'.blobGetter.cloud = cloudFromName(CloudNameOf(OwnEnv(ret'.config))).cfg
              /\ store'.blobGetter.auth = "sharedKey" =>
                     store'.blobGetter.key = getStorageAccountKey(ret'.config, OwnEnv(ret'.config))
              /\ store'.blobGetter.auth # "sharedKey" =>
                     store'.blobGetter.auth = NewDefaultAzureCredential(OwnEnv(ret'.config))]_vars


(***************************************************************************)
(* Init of the volume snapshotter and Init of the object store that loads  *)
(* its credentials file into the environment, each on a goroutine of its   *)
(* own in one process.  A step is one access to the process environment    *)
(* (os.Setenv of godotenv.Overload, or the os.Getenv calls of one          *)
(* statement) together with the statements up to the next access; the      *)
(* environment itself is guarded by the runtime's lock, so single accesses *)
(* are atomic, and godotenv sets the keys of a file in the order of a map  *)
(* iteration, which is any order.                                          *)
(***************************************************************************)
ConcurrentSnapshotterConfigs ==
    { File(CloudCredentialsFile),
      File(BareCredentialsFile) @@ (apiTimeoutConfigKey :> "soon"),
      File(MissingCredentialsFile) }

ConcurrentStoreConfigs ==
    { Account @@ KeyVar @@ File(KeyCredentialsFile),
      File(BareCredentialsFile) }

InitFrame(config, file) ==
    [pc |-> "load", config |-> config, file |-> file, err |-> "",
     pending |-> IF file = "" THEN {} ELSE DOMAIN FileSystem[file],
     envVars |-> EmptyMap, cloudConfig |-> NoCloud, subscriptionID |-> ""]

Returned(config, file, e) ==
    [pc |-> "returned", config |-> config, file |-> file, err |-> e]

\* volume_snapshotter.go 88-106 up to the first os.Setenv
SnapshotterInitBegin(config) ==
    /\ inits.snap.pc \in {"idle", "returned"}
    /\ LET invalid == ValidateVolumeSnapshotterConfigKeys(config, VolumeSnapshotterValidKeys)
           sel     == selectCredentialsFile(config, env)
           failed(e) ==
               /\ inits' = [inits EXCEPT !.snap = Returned(config, sel.file, e)]
               /\ ret' = [op |-> "VolumeSnapshotter.Init", config |-> config, err |-> e]
       IN  IF invalid # "" THEN failed(invalid)
           ELSE IF sel.err # "" THEN failed(sel.err)
           ELSE IF loadCredentialsIntoEnv(sel.file, env).err # ""
           THEN failed(loadCredentialsIntoEnv(sel.file, env).err)
           ELSE /\ inits' = [inits EXCEPT !.snap = InitFrame(config, sel.file)]
                /\ ret' = ret
    /\ UNCHANGED <<clouds, env, store, snap, blob, calls, put, list, compute>>

\* object_store.go 692-710 and 603-612 up to the first os.Setenv
StoreInitBegin(config) ==
    /\ inits.store.pc \in {"idle", "returned"}
    /\ LET invalid == ValidateObjectStoreConfigKeys(config, ObjectStoreEnvValidKeys)
           sel     == selectCredentialsFile(config, env)
           failed(e) ==
               /\ inits' = [inits EXCEPT !.store = Returned(config, sel.file, e)]
               /\ ret' = [op |-> "ObjectStore.Init", config |-> config, err |-> e]
       IN  IF invalid # "" THEN failed(invalid)
           ELSE IF sel.err # "" THEN failed(sel.err)
           ELSE IF loadCredentialsIntoEnv(sel.file, env).err # ""
           THEN failed(loadCredentialsIntoEnv(sel.file, env).err)
           ELSE /\ inits' = [inits EXCEPT !.store = InitFrame(config, sel.file)]
                /\ ret' = ret
    /\ UNCHANGED <<clouds, env, store, snap, blob, calls, put, list, compute>>

\* godotenv.Overload: os.Setenv of one more key of the file
LoadKey(i) ==
    /\ inits[i].pc = "load"
    /\ \E k \in inits[i].pending :
           /\ env' = Put(env, k, FileSystem[inits[i].file][k])
           /\ inits' = [inits EXCEPT ![i].pending = @ \ {k}]
    /\ UNCHANGED <<clouds, store, snap, blob, calls, put, list, ret, compute>>

\* volume_snapshotter.go 109-122: getRequiredValues(os.Getenv, ...)
SnapshotterInitRequired ==
    /\ inits.snap.pc = "load" /\ inits.snap.pending = {}
    /\ LET f       == inits.snap
           envVars == getRequiredValues(env, {subscriptionIDEnvVar, resourceGroupEnvVar})
           failed(e) ==
               /\ inits' = [inits EXCEPT !.snap = Returned(f.config, f.file, e)]
               /\ ret' = [op |-> "VolumeSnapshotter.Init", config |-> f.config, err |-> e]
       IN  IF envVars.err # ""
           THEN failed("unable to get all required environment variables")
           ELSE IF /\ Get(f.config, subscriptionIDConfigKey) # ""
                   /\ getRequiredValues(f.config, {resourceGroupConfigKey}).err # ""
           THEN failed("resourceGroup not specified")
           ELSE /\ inits' = [inits EXCEPT !.snap.pc = "cloud",
                                          !.snap.envVars = envVars.results]
                /\ ret' = ret
    /\ UNCHANGED <<clouds, env, store, snap, blob, calls, put, list, compute>>

\* volume_snapshotter.go 126-145: os.Getenv(cloudNameEnvVar), then apiTimeout
SnapshotterInitCloud ==
    /\ inits.snap.pc = "cloud"
    /\ LET f        == inits.snap
           cloudRes == cloudFromName(CloudNameOf(env))
           timeout  == ParseDuration(Get(f.config, apiTimeoutConfigKey))
           failed(e) ==
               /\ inits' = [inits EXCEPT !.snap = Returned(f.config, f.file, e)]
               /\ ret' = [op |-> "VolumeSnapshotter.Init", config |-> f.config, err |-> e]
       IN  IF cloudRes.err # "" THEN failed(cloudRes.err)
           ELSE IF Get(f.config, apiTimeoutConfigKey) # "" /\ timeout.err
           THEN failed("unable to parse apiTimeout")
           ELSE /\ inits' = [inits EXCEPT !.snap.pc = "credential",
                                          !.snap.cloudConfig = cloudRes.cfg]
                /\ ret' = ret
    /\ UNCHANGED <<clouds, env, store, snap, blob, calls, put, list, compute>>

\* volume_snapshotter.go 148-203: NewDefaultAzureCredential reads the environment
SnapshotterInitFinish ==
    /\ inits.snap.pc = "credential"
    /\ LET f          == inits.snap
           config     == f.config
           credential == NewDefaultAzureCredential(env)
           val        == Get(config, subscriptionIDConfigKey)
           snapshotsSubscriptionID ==
               IF val # "" THEN val ELSE f.envVars[subscriptionIDEnvVar]
           incr       == ParseBool(Get(config, snapsIncrementalConfigKey))
           tags       == ConvertTagsToMap(Get(config, snapsTagsConfigKey))
           failed(e) ==
               /\ inits' = [inits EXCEPT !.snap = Returned(config, f.file, e)]
               /\ ret' = [op |-> "VolumeSnapshotter.Init", config |-> config, err |-> e]
               /\ snap' = snap
       IN  IF Get(config, snapsIncrementalConfigKey) # "" /\ incr.err
           THEN failed("unable to parse incremental")
           ELSE IF Get(config, snapsTagsConfigKey) # "" /\ tags.err
           THEN failed("unable to parse tags")
           ELSE
               /\ snap' = [disks |-> [auth |-> credential,
                                      subscription |-> f.envVars[subscriptionIDEnvVar],
                                      cloud |-> f.cloudConfig],
                           snaps |-> [auth |-> credential,
                                      subscription |-> snapshotsSubscriptionID,
                                      cloud |-> f.cloudConfig],
                           disksSubscription |-> f.envVars[subscriptionIDEnvVar],
                           snapsSubscription |-> snapshotsSubscriptionID,
                           disksResourceGroup |-> f.envVars[resourceGroupEnvVar],
                           snapsResourceGroup |->
                               IF Get(config, resourceGroupConfigKey) = ""
                               THEN f.envVars[resourceGroupEnvVar]
                               ELSE config[resourceGroupConfigKey],
                           snapsIncremental |->
                               IF Get(config, snapsIncrementalConfigKey) = "" THEN "nil"
                               ELSE IF incr.val THEN "true" ELSE "false",
                           apiTimeout |->
                               IF Get(config, apiTimeoutConfigKey) = "" THEN 120
                               ELSE ParseDuration(config[apiTimeoutConfigKey]).val,
                           snapsTags |-> IF Get(config, snapsTagsConfigKey) = ""
                                         THEN EmptyMap ELSE tags.tags]
               /\ inits' = [inits EXCEPT !.snap = Returned(config, f.file, "")]
               /\ ret' = [op |-> "VolumeSnapshotter.Init", config |-> config, err |-> ""]
    /\ UNCHANGED <<clouds, env, store, blob, calls, put, list, compute>>

\* object_store.go 712-727: storageAccount, then os.Getenv(cloudNameEnvVar)
StoreInitCloud ==
    /\ inits.store.pc = "load" /\ inits.store.pending = {}
    /\ LET f        == inits.store
           cloudRes == cloudFromName(CloudNameOf(env))
           cloudConfig ==
               IF Get(f.config, activeDirectoryAuthorityURIConfigKey) # ""
                  /\ Get(f.config, useAADConfigKey) = "true"
               THEN [cloudRes.cfg EXCEPT !.ActiveDirectoryAuthorityHost =
                                             f.config[activeDirectoryAuthorityURIConfigKey]]
               ELSE cloudRes.cfg
           failed(e) ==
               /\ inits' = [inits EXCEPT !.store = Returned(f.config, f.file, e)]
               /\ ret' = [op |-> "ObjectStore.Init", config |-> f.config, err |-> e]
       IN  IF Get(f.config, storageAccountConfigKey) = ""
           THEN failed("storageAccount not defined") /\ store' = store
           ELSE /\ store' = [store EXCEPT !.storageAccount = f.config[storageAccountConfigKey]]
                /\ IF cloudRes.err # "" THEN failed(cloudRes.err)
                   ELSE /\ inits' = [inits EXCEPT !.store.pc = "key",
                                                  !.store.cloudConfig = cloudConfig]
                        /\ ret' = ret
    /\ UNCHANGED <<clouds, env, snap, blob, calls, put, list, compute>>

\* object_store.go 729-744: the storage key and the subscription, by os.Getenv
StoreInitKey ==
    /\ inits.store.pc = "key"
    /\ LET f == inits.store
           storageAccountKey == getStorageAccountKey(f.config, env)
       IN  /\ store' = IF storageAccountKey # ""
                       THEN [store EXCEPT !.sharedKeyCredential =
                                 [account |-> store.storageAccount, key |-> storageAccountKey]]
                       ELSE store
           /\ inits' = [inits EXCEPT !.store.pc = "client",
                                     !.store.subscriptionID =
                                         IF Get(f.config, subscriptionIDConfigKey) = ""
                                         THEN Get(env, subscriptionIDEnvVar)
                                         ELSE f.config[subscriptionIDConfigKey]]
    /\ UNCHANGED <<clouds, env, snap, blob, calls, put, list, ret, compute>>

\* object_store.go 745-762: getServiceClient, whose NewDefaultAzureCredential
\* reads the environment, and the assignments to the receiver
StoreInitFinish(api) ==
    /\ inits.store.pc = "client"
    /\ LET f == inits.store
           r == getServiceClient(store.storageAccount, f.subscriptionID,
                                 Get(f.config, resourceGroupConfigKey),
                                 Get(f.config, storageAccountURIConfigKey),
                                 Get(f.config, useAADConfigKey), store.sharedKeyCredential,
                                 f.cloudConfig, env, api)
       IN  /\ store' = IF r.err # ""
                       THEN [store EXCEPT !.sharedKeyCredential = NoSharedKey]
                       ELSE [store EXCEPT !.sharedKeyCredential = r.cred,
                                          !.containerGetter = r.client,
                                          !.blobGetter = r.client,
                                          !.blockSize = getBlockSize(f.config)]
           /\ inits' = [inits EXCEPT !.store = Returned(f.config, f.file, r.err)]
           /\ ret' = [op |-> "ObjectStore.Init", config |-> f.config, err |-> r.err]
    /\ UNCHANGED <<clouds, env, snap, blob, calls, put, list, compute>>

InitConcurrent == InitLocations

NextConcurrent ==
    \/ \E config \in ConcurrentSnapshotterConfigs : SnapshotterInitBegin(config)
    \/ \E config \in ConcurrentStoreConfigs : StoreInitBegin(config)
    \/ \E i \in {"snap", "store"} : LoadKey(i)
    \/ SnapshotterInitRequired
    \/ SnapshotterInitCloud
    \/ SnapshotterInitFinish
    \/ StoreInitCloud
    \/ StoreInitKey
    \/ StoreInitFinish(LocationApi)

SpecConcurrent == InitConcurrent /\ [][NextConcurrent]_vars

\* the values of the credentials file an Init was given
OwnFile(i) == FileSystem[inits[i].file]

OtherFile ==
    /\ inits.snap.pc # "idle" /\ inits.store.pc # "idle"
    /\ inits.snap.file # inits.store.file

InitSucceeded(i) == inits[i].pc = "returned" /\ inits[i].err = "" /\ OtherFile

Defines(i, k) == k \in DOMAIN OwnFile(i)

\* C28 as stated: when two Init calls on different plugin instances run
\* concurrently in one process with different credentials files, each resolves
\* its credentials, subscription and cloud from its own file under every
\* interleaving: whatever its own file defines is what the Init has used
C28_AsStated ==
    /\ InitSucceeded("snap") =>
           /\ Defines("snap", subscriptionIDEnvVar) =>
                  snap.disksSubscription = OwnFile("snap")[subscriptionIDEnvVar]
           /\ Defines("snap", resourceGroupEnvVar) =>
                  snap.disksResourceGroup = OwnFile("snap")[resourceGroupEnvVar]
           /\ Defines("snap", cloudNameEnvVar) =>
                  snap.disks.cloud = cloudFromName(OwnFile("snap")[cloudNameEnvVar]).cfg
           /\ Defines("snap", clientSecretEnvVar) => snap.disks.auth = "clientSecret"
    /\ InitSucceeded("store") =>
           /\ Defines("store", cloudNameEnvVar) =>
                  store.blobGetter.cloud = cloudFromName(OwnFile("store")[cloudNameEnvVar]).cfg
           /\ (Defines("store", AccessKeyName) /\ store.blobGetter.auth = "sharedKey"
                   /\ Get(inits.store.config, storageAccountKeyEnvVarConfigKey) = AccessKeyName) =>
                  store.blobGetter.key = OwnFile("store")[AccessKeyName]


(***************************************************************************)
(* storage.go: getCloudConfiguration of the plugin's main package.  It     *)
(* works on the *cloud.Configuration that azclient.AzureCloudConfigFromName*)
(* hands out and writes the location's authority host through that         *)
(* pointer before it returns the pointed-to value.                         *)
(***************************************************************************)
\* azclient.AzureCloudConfigFromName: the name is trimmed and upper-cased and
\* looked up among the built-in clouds; the result names the package variable
\* the returned pointer refers to, "nil" for a name of no built-in cloud
AzureCloudConfigFromName(cloudName) ==
    LET solid == {i \in 1 .. Len(cloudName) : cloudName[i] # " "}
        first == CHOOSE i \in solid : \A j \in solid : i <= j
        last  == CHOOSE i \in solid : \A j \in solid : j <= i
        up    == IF solid = {} THEN <<>> ELSE ToUpper(SubSeq(cloudName, first, last))
    IN  IF cloudName = <<>> THEN "AzurePublic"
        ELSE IF up \in {AZURECLOUD, AZUREPUBLICCLOUD} THEN "AzurePublic"
        ELSE IF up = AZURECHINACLOUD THEN "AzureChina"
        ELSE IF up \in {AZUREUSGOVERNMENT, AZUREUSGOVERNMENTCLOUD} THEN "AzureGovernment"
        ELSE "nil"

\* the cloud names and location configurations of the calls below: no
\* resourceManagerEndpoint, so the metadata service is not asked, and no
\* AzureStackCloud environment file, so OverrideAzureCloudConfigFromEnv leaves
\* the configuration as it is
BuiltinNames ==
    { <<>>, AzureCloud, AzurePublicCloud, AllLower(AzureChinaCloud), AzureUSGovernment,
      AzureCloud \o <<" ">>, AzureStackCloud }

AuthorityLocations ==
    { EmptyMap,
      (activeDirectoryAuthorityURIConfigKey :> "https://login.example/"),
      (activeDirectoryAuthorityURIConfigKey :> "https://login.other/") }

\* getCloudConfiguration (storage.go).  The library is not part of the
\* repository: the pointer it returns refers either to the SDK's package
\* variable itself (shared) or to a copy of it, and the code does not copy
\* before it assigns.  A nil pointer has no configuration to return.
GetCloudConfigurationStorage(name, locationCfg) ==
    LET activeDirectoryAuthorityURI == Get(locationCfg, activeDirectoryAuthorityURIConfigKey)
        config == AzureCloudConfigFromName(name)
    IN  IF config = "nil"
        THEN /\ ret' = [op |-> "getCloudConfigurationStorage", name |-> name,
                        locationCfg |-> locationCfg, config |-> config,
                        cfg |-> NoCloud, err |-> "no configuration"]
             /\ UNCHANGED <<clouds, inits, compute, env, store, snap, blob, calls, put, list>>
        ELSE \E shared \in BOOLEAN :
             \E pointee \in { IF activeDirectoryAuthorityURI # ""
                              THEN [clouds[config] EXCEPT
                                      !.ActiveDirectoryAuthorityHost = activeDirectoryAuthorityURI]
                              ELSE clouds[config] } :
                /\ clouds' = IF shared THEN [clouds EXCEPT ![config] = pointee] ELSE clouds
                /\ ret' = [op |-> "getCloudConfigurationStorage", name |-> name,
                           locationCfg |-> locationCfg, config |-> config,
                           cfg |-> pointee, err |-> ""]
                /\ UNCHANGED <<inits, compute, env, store, snap, blob, calls, put, list>>

NextBuiltin ==
    \E name \in BuiltinNames : \E locationCfg \in AuthorityLocations :
        GetCloudConfigurationStorage(name, locationCfg)

SpecBuiltin == InitCloud /\ [][NextBuiltin]_vars

\* a call for a built-in cloud whose location sets no authority host has returned
DefaultAsked ==
    /\ ret.op = "getCloudConfigurationStorage" /\ ret.err = ""
    /\ Get(ret.locationCfg, activeDirectoryAuthorityURIConfigKey) = ""

\* C29: setting activeDirectoryAuthorityURI for one location leaves the
\* shared built-in cloud configurations as the SDK defines them, and a later
\* getCloudConfiguration call for the same cloud without the key returns
\* that cloud's default Active Directory authority host.
C29_AsStated ==
    /\ clouds = BuiltinClouds
    /\ DefaultAsked =>
          ret.cfg.ActiveDirectoryAuthorityHost
              = BuiltinClouds[ret.config].ActiveDirectoryAuthorityHost

=============================================================================
